---- MODULE Spec2Model ----
(***************************************************************************)
(* A model of the GOAP runtime: the regressive A* planner with effect      *)
(* references (src/src/regressive_planner.py, src/src/priority_queue.py),  *)
(* the action declaration validator, and the sense/plan/act automaton and  *)
(* its controller (src/goap/code/src/ref_goap.py, src/src/goap.py).        *)
(*                                                                         *)
(* Python dicts are modelled as insertion-ordered sequences of [k, v]      *)
(* records with unique keys.  Atoms are strings.  Search nodes hash by     *)
(* identity in the source, so a node is its index in the sequence of nodes *)
(* created by the search.                                                  *)
(***************************************************************************)
EXTENDS Integers, Sequences, FiniteSets, TLC

\* ------------------------------------------------------------------------
\* Bounds of the model
\* ------------------------------------------------------------------------
MaxActions == 3
MaxExpansions == 7

\* ------------------------------------------------------------------------
\* Atoms and sentinels
\* ------------------------------------------------------------------------
NOT_DEFINED == "NOT_DEFINED"
Ellipsis == "..."
Keys == {"a", "b", "c"}
Vals == {"u", "v"}

\* reference(name): an EffectReference object; a value distinct from every atom
reference(name) == "ref:" \o name
IsReference(value) == \E n \in Keys : value = reference(n)
goap_effect_reference(value) == CHOOSE n \in Keys : value = reference(n)

\* ------------------------------------------------------------------------
\* dict
\* ------------------------------------------------------------------------
EmptyDict == << >>
KV(k, v) == [k |-> k, v |-> v]
Has(d, k) == \E i \in 1..Len(d) : d[i].k = k
Get(d, k) == d[CHOOSE i \in 1..Len(d) : d[i].k = k].v
GetOr(d, k, default) == IF Has(d, k) THEN Get(d, k) ELSE default
Put(d, k, v) ==
    IF Has(d, k)
    THEN [i \in 1..Len(d) |-> IF d[i].k = k THEN KV(k, v) ELSE d[i]]
    ELSE Append(d, KV(k, v))
KeysOf(d) == [i \in 1..Len(d) |-> d[i].k]
KeySet(d) == {d[i].k : i \in 1..Len(d)}
\* dict.__eq__: same keys, same values, in any order
DictEq(d1, d2) ==
    /\ KeySet(d1) = KeySet(d2)
    /\ \A k \in KeySet(d1) : Get(d1, k) = Get(d2, k)

\* ------------------------------------------------------------------------
\* Action classes: RegAction and the RegActionValidator metaclass
\* ------------------------------------------------------------------------
\* class RegAction: the attributes every action class inherits
RegAction ==
    [preconditions |-> EmptyDict, effects |-> EmptyDict, service_names |-> << >>,
     cost |-> 1, precedence |-> 0, apply_effects_on_exit |-> TRUE,
     check_procedural_precondition |-> TRUE]

\* The attrs of a class statement: `has` is the set of names the class body
\* assigns; a name not in `has` is looked up on the base class.
AttrNames == {"preconditions", "effects", "cost", "precedence",
              "apply_effects_on_exit", "check_procedural_precondition"}
Attrs(has, pre, eff, cost, precedence, on_exit, procedural) ==
    [has |-> has, preconditions |-> pre, effects |-> eff, cost |-> cost,
     precedence |-> precedence, apply_effects_on_exit |-> on_exit,
     check_procedural_precondition |-> procedural]

\* attrs.get(name, {})
AttrsGetDict(attrs, name) == IF name \in attrs.has THEN attrs[name] ELSE EmptyDict

\* [k for k, v in effects.items() if v is Ellipsis]
ServiceNames(effects) ==
    LET IsService(e) == e.v = Ellipsis
    IN  KeysOf(SelectSeq(effects, IsService))

\* _validate_preconditions: "ok", or the exception the first offending
\* precondition raises.  The message of the invalid-reference ValueError reads
\* value.name, which an EffectReference does not have, so building it raises
\* AttributeError instead.
ValidatePreconditions(all_effects, preconditions) ==
    LET Bad(i) ==
            \/ preconditions[i].v = Ellipsis
            \/ /\ IsReference(preconditions[i].v)
               /\ ~Has(all_effects, goap_effect_reference(preconditions[i].v))
        bad == {i \in 1..Len(preconditions) : Bad(i)}
    IN  IF bad = {} THEN "ok"
        ELSE LET i == CHOOSE j \in bad : \A j2 \in bad : j <= j2
             IN  IF preconditions[i].v = Ellipsis THEN "ValueError"
                 ELSE "AttributeError"

\* RegActionValidator.__new__ for a class with a base: the exception raised
\* ("ok" when the class is created) ...
ClassNewResult(attrs) ==
    ValidatePreconditions(AttrsGetDict(attrs, "effects"),
                          AttrsGetDict(attrs, "preconditions"))

\* ... and the class created: service_names is always set from the class's own
\* attrs; every other attribute is the class's own or else the base's.
ClassNew(base, attrs) ==
    LET Own(n) == IF n \in attrs.has THEN attrs[n] ELSE base[n]
    IN  [preconditions |-> Own("preconditions"),
         effects |-> Own("effects"),
         service_names |-> ServiceNames(AttrsGetDict(attrs, "effects")),
         cost |-> Own("cost"),
         precedence |-> Own("precedence"),
         apply_effects_on_exit |-> Own("apply_effects_on_exit"),
         check_procedural_precondition |-> Own("check_procedural_precondition")]

\* ------------------------------------------------------------------------
\* RegressiveGOAPAStarNode
\* ------------------------------------------------------------------------
\* A node; `action` is the action instance that produced it, NoAction for None.
\* `err` marks a node whose construction raised KeyError.
NoAction == 0
Node(current_state, goal_state, action) ==
    [current_state |-> current_state, goal_state |-> goal_state,
     action |-> action, err |-> FALSE]
KeyErrorNode == [current_state |-> EmptyDict, goal_state |-> EmptyDict,
                 action |-> NoAction, err |-> TRUE]

\* The first loop of apply_action, over action.effects.items() from index i:
\* the child's current_state, or "KeyError" wrapped as [err |-> TRUE] when a
\* service effect names a key the goal state does not hold.
RECURSIVE EffectsLoop(_, _, _, _, _)
EffectsLoop(current_state, goal_state, world_state, act, i) ==
    IF i > Len(act.effects) THEN [err |-> FALSE, current_state |-> current_state]
    ELSE LET key == act.effects[i].k
             value == act.effects[i].v
         IN  IF value = Ellipsis /\ ~Has(goal_state, key)
             THEN [err |-> TRUE, current_state |-> current_state]
             ELSE LET new ==
                          IF value = Ellipsis THEN Get(goal_state, key)
                          ELSE IF Has(act.preconditions, key)
                               THEN GetOr(world_state, key, NOT_DEFINED)
                          ELSE value
                  IN  EffectsLoop(Put(current_state, key, new), goal_state,
                                  world_state, act, i + 1)

\* a loop over the preconditions that keeps the demand the goal state
\* already holds for a key
RECURSIVE PreconditionsLoopKeepingDemands(_, _, _, _, _)
PreconditionsLoopKeepingDemands(current_state, goal_state, world_state, act, i) ==
    IF i > Len(act.preconditions)
    THEN [err |-> FALSE, current_state |-> current_state, goal_state |-> goal_state]
    ELSE LET key == act.preconditions[i].k
             value == act.preconditions[i].v
         IN  IF IsReference(value) /\ ~Has(current_state, goap_effect_reference(value))
             THEN [err |-> TRUE, current_state |-> current_state,
                   goal_state |-> goal_state]
             ELSE LET resolved ==
                          IF IsReference(value)
                          THEN Get(current_state, goap_effect_reference(value))
                          ELSE value
                  IN  PreconditionsLoopKeepingDemands(
                          Put(current_state, key, GetOr(world_state, key, NOT_DEFINED)),
                          IF Has(goal_state, key) THEN goal_state
                          ELSE Put(goal_state, key, resolved),
                          world_state, act, i + 1)

\* The second loop of apply_action, over action.preconditions.items().
RECURSIVE PreconditionsLoop(_, _, _, _, _)
PreconditionsLoop(current_state, goal_state, world_state, act, i) ==
    IF i > Len(act.preconditions)
    THEN [err |-> FALSE, current_state |-> current_state, goal_state |-> goal_state]
    ELSE LET key == act.preconditions[i].k
             value == act.preconditions[i].v
         IN  IF IsReference(value) /\ ~Has(current_state, goap_effect_reference(value))
             THEN [err |-> TRUE, current_state |-> current_state,
                   goal_state |-> goal_state]
             ELSE LET resolved ==
                          IF IsReference(value)
                          THEN Get(current_state, goap_effect_reference(value))
                          ELSE value
                  IN  PreconditionsLoop(
                          Put(current_state, key, GetOr(world_state, key, NOT_DEFINED)),
                          Put(goal_state, key, resolved),
                          world_state, act, i + 1)

\* node.apply_action(world_state, action); `a` is the action's index in `acts`
apply_action(node, world_state, acts, a) ==
    LET e == EffectsLoop(node.current_state, node.goal_state, world_state, acts[a], 1)
        p == PreconditionsLoop(e.current_state, node.goal_state, world_state, acts[a], 1)
    IN  IF e.err \/ p.err THEN KeyErrorNode
        ELSE Node(p.current_state, p.goal_state, a)

\* node.unsatisfied_keys, in goal_state order
unsatisfied_keys(node) ==
    LET Unsat(e) == Get(node.current_state, e.k) # e.v
    IN  KeysOf(SelectSeq(node.goal_state, Unsat))

\* a variant that never takes the start node (the one without an action) as finished
is_satisfied_unless_start(node) ==
    unsatisfied_keys(node) = << >> /\ node.action # NoAction
is_satisfied(node) == unsatisfied_keys(node) = << >>

\* node.services
services(node, acts) ==
    LET names == acts[node.action].service_names
    IN  [i \in 1..Len(names) |-> KV(names[i], Get(node.current_state, names[i]))]

\* ------------------------------------------------------------------------
\* heapq over PriorityElement (compared by score alone), positions from 0
\* ------------------------------------------------------------------------
PriorityElement(element, score) == [value |-> element, score |-> score, removed |-> FALSE]

RECURSIVE SiftDown(_, _, _, _)
SiftDown(heap, startpos, pos, newitem) ==
    IF pos > startpos
    THEN LET parentpos == (pos - 1) \div 2
             parent == heap[parentpos + 1]
         IN  IF newitem.score < parent.score
             THEN SiftDown([heap EXCEPT ![pos + 1] = parent], startpos, parentpos, newitem)
             ELSE [heap EXCEPT ![pos + 1] = newitem]
    ELSE [heap EXCEPT ![pos + 1] = newitem]

RECURSIVE SiftUp(_, _, _, _)
SiftUp(heap, startpos, pos, newitem) ==
    LET endpos == Len(heap)
        childpos == 2 * pos + 1
        rightpos == childpos + 1
    IN  IF childpos < endpos
        THEN LET c == IF /\ rightpos < endpos
                         /\ ~(heap[childpos + 1].score < heap[rightpos + 1].score)
                      THEN rightpos ELSE childpos
             IN  SiftUp([heap EXCEPT ![pos + 1] = heap[c + 1]], startpos, c, newitem)
        ELSE SiftDown([heap EXCEPT ![pos + 1] = newitem], startpos, pos, newitem)

heappush(heap, item) ==
    SiftDown(Append(heap, item), 0, Len(heap), item)

\* heappop of a non-empty heap: [item, heap]
heappop(heap) ==
    LET lastelt == heap[Len(heap)]
        rest == SubSeq(heap, 1, Len(heap) - 1)
    IN  IF rest = << >> THEN [item |-> lastelt, heap |-> rest]
        ELSE [item |-> rest[1],
              heap |-> SiftUp([rest EXCEPT ![1] = lastelt], 0, 0, lastelt)]

\* ------------------------------------------------------------------------
\* PriorityQueue: _heap, and _dict as the set of its keys (the element of a
\* contained item is the heap entry holding it that is not marked removed)
\* ------------------------------------------------------------------------
EmptyQueue == [heap |-> << >>, dict |-> {}]

\* add(item) with key(item) = score; the caller checks `item in queue` first
\* where the source would raise ValueError
PQAdd(q, item, score) ==
    [heap |-> heappush(q.heap, PriorityElement(item, score)),
     dict |-> q.dict \cup {item}]

\* pop(): heappop until an element not marked removed: [value, queue]
RECURSIVE PQPop(_)
PQPop(q) ==
    LET r == heappop(q.heap)
    IN  IF ~r.item.removed
        THEN [value |-> r.item.value,
              queue |-> [heap |-> r.heap, dict |-> q.dict \ {r.item.value}]]
        ELSE PQPop([q EXCEPT !.heap = r.heap])

\* a remove that takes the item out of the dict and leaves its heap entry
\* unmarked
PQRemoveUnmarked(q, item) ==
    [heap |-> q.heap, dict |-> q.dict \ {item}]

\* remove(item): the element is marked, and leaves the dict only
PQRemove(q, item) ==
    [heap |-> [i \in 1..Len(q.heap) |->
                  IF q.heap[i].value = item /\ ~q.heap[i].removed
                  THEN [q.heap[i] EXCEPT !.removed = TRUE]
                  ELSE q.heap[i]],
     dict |-> q.dict \ {item}]

\* ------------------------------------------------------------------------
\* RegressiveGOAPAStarSearch
\* ------------------------------------------------------------------------
\* _create_effect_table: the indices of the actions declaring `key` in effects
effect_to_action(acts, key) ==
    LET Declares(a) == Has(acts[a].effects, key)
    IN  SelectSeq([a \in 1..Len(acts) |-> a], Declares)
InEffectTable(acts, key) == effect_to_action(acts, key) # << >>

\* The actions get_neighbours applies for one unsatisfied key: those whose
\* effect on the key is the demanded value or a service
ActionsFor(node, acts, key) ==
    LET goal_value == Get(node.goal_state, key)
        Fits(a) == LET effect_value == Get(acts[a].effects, key)
                   IN  ~(effect_value # goal_value /\ effect_value # Ellipsis)
    IN  SelectSeq(effect_to_action(acts, key), Fits)

RECURSIVE Concat(_, _)
Concat(seqs, i) == IF i > Len(seqs) THEN << >> ELSE seqs[i] \o Concat(seqs, i + 1)

\* neighbours.sort(key=action.precedence, reverse=True): stable
RECURSIVE SortByPrecedence(_, _)
SortByPrecedence(ns, acts) ==
    IF ns = << >> THEN << >>
    ELSE LET front == SortByPrecedence(SubSeq(ns, 1, Len(ns) - 1), acts)
             x == ns[Len(ns)]
             Prec(n) == acts[n.action].precedence
             before == {j \in 1..Len(front) : Prec(front[j]) < Prec(x)}
             pos == IF before = {} THEN Len(front) + 1
                    ELSE CHOOSE j \in before : \A j2 \in before : j <= j2
         IN  SubSeq(front, 1, pos - 1) \o <<x>> \o SubSeq(front, pos, Len(front))

\* get_neighbours(node): [err, nodes]; err when a lookup raised KeyError
\* (an unsatisfied key no action declares, or apply_action failing)
get_neighbours(node, world_state, acts) ==
    LET keys == unsatisfied_keys(node)
        applied == Concat([i \in 1..Len(keys) |->
                       IF InEffectTable(acts, keys[i])
                       THEN LET as == ActionsFor(node, acts, keys[i])
                            IN  [j \in 1..Len(as) |->
                                    apply_action(node, world_state, acts, as[j])]
                       ELSE <<KeyErrorNode>>], 1)
        Raised(n) == n.err
        Visitable(n) == acts[n.action].check_procedural_precondition
    IN  IF SelectSeq(applied, Raised) # << >>
        THEN [err |-> TRUE, nodes |-> << >>]
        ELSE [err |-> FALSE,
              nodes |-> SortByPrecedence(SelectSeq(applied, Visitable), acts)]

get_h_score(node) == Len(unsatisfied_keys(node))

\* get_g_score(node, neighbour) = neighbour.action.get_cost(neighbour.services)
get_g_score(neighbour, acts) == acts[neighbour.action].cost

\* ------------------------------------------------------------------------
\* AStarAlgorithm.find_path, one iteration of the while loop at a time
\* ------------------------------------------------------------------------
\* The locals of find_path.  nodes[n] is the node object with identity n.
SearchStart(start) ==
    [nodes |-> <<start>>,
     g_scores |-> (1 :> 0),
     f_scores |-> (1 :> get_h_score(start)),
     parents |-> << >>,
     candidates |-> PQAdd(EmptyQueue, 1, get_h_score(start)),
     rejects |-> {},
     i |-> 0,
     status |-> "running",
     found |-> 0]

FloatMax == 1000000

\* The body of `for neighbour in get_neighbours(current)` for neighbours
\* j..Len(ns); a neighbour is a new object, so it gets a new identity
RECURSIVE VisitNeighbours(_, _, _, _, _)
VisitNeighbours(s, current, ns, j, acts) ==
    IF j > Len(ns) THEN s
    ELSE LET neighbour == Len(s.nodes) + 1
             known == [s EXCEPT !.nodes = Append(s.nodes, ns[j])]
             tentative_g_score == s.g_scores[current] + get_g_score(ns[j], acts)
             tentative_is_better ==
                 tentative_g_score <
                     (IF neighbour \in DOMAIN s.g_scores
                      THEN s.g_scores[neighbour] ELSE FloatMax)
             f == tentative_g_score + get_h_score(ns[j])
         IN  IF neighbour \in s.rejects
             THEN VisitNeighbours(known, current, ns, j + 1, acts)
             ELSE IF neighbour \in s.candidates.dict /\ ~tentative_is_better
             THEN VisitNeighbours(known, current, ns, j + 1, acts)
             ELSE IF neighbour \in s.candidates.dict
             THEN [known EXCEPT !.status = "ValueError"]
             ELSE VisitNeighbours(
                      [known EXCEPT
                          !.parents = (neighbour :> current) @@ @,
                          !.g_scores = (neighbour :> tentative_g_score) @@ @,
                          !.f_scores = (neighbour :> f) @@ @,
                          !.candidates = PQAdd(@, neighbour, f)],
                      current, ns, j + 1, acts)

\* One iteration of `while candidates`, or the raise that follows the loop
FindPathStep(s, world_state, acts) ==
    IF s.candidates.dict = {} THEN [s EXCEPT !.status = "PathNotFoundException"]
    ELSE LET popped == PQPop(s.candidates)
             current == popped.value
             t == [s EXCEPT !.candidates = popped.queue, !.i = @ + 1]
         IN  IF is_satisfied(s.nodes[current])
             THEN [t EXCEPT !.status = "found", !.found = current]
             ELSE LET nb == get_neighbours(s.nodes[current], world_state, acts)
                      u == [t EXCEPT !.rejects = @ \cup {current}]
                  IN  IF nb.err THEN [u EXCEPT !.status = "KeyError"]
                      ELSE VisitNeighbours(u, current, nb.nodes, 1, acts)

\* AStarAlgorithm.reconstruct_path: node identities from the start to `node`
RECURSIVE AStarReconstructPath(_, _)
AStarReconstructPath(parents, node) ==
    IF node \in DOMAIN parents
    THEN Append(AStarReconstructPath(parents, parents[node]), node)
    ELSE <<node>>

Reverse(seq) == [i \in 1..Len(seq) |-> seq[Len(seq) + 1 - i]]

\* RegressiveGOAPAStarSearch.reconstruct_path: reversed(path); the variant
\* keeps the order of the search, from the goal's node towards the world
reconstruct_path_unreversed(parents, node) == AStarReconstructPath(parents, node)
reconstruct_path(parents, node) == Reverse(AStarReconstructPath(parents, node))

\* ------------------------------------------------------------------------
\* RegressivePlanner
\* ------------------------------------------------------------------------
RegPlanStep(action, svc) == [action |-> action, services |-> svc]

\* _create_plan_steps(path): the steps up to the first node without an action
RECURSIVE create_plan_steps(_, _, _, _)
create_plan_steps(nodes, path, i, acts) ==
    IF i > Len(path) THEN << >>
    ELSE IF nodes[path[i]].action = NoAction THEN << >>
    ELSE <<RegPlanStep(nodes[path[i]].action, services(nodes[path[i]], acts))>>
         \o create_plan_steps(nodes, path, i + 1, acts)

\* find_plan builds initial_state = {k: world_state[k] for k in goal_state}:
\* KeyError when the world state lacks a goal key
GoalKeysKnown(world_state, goal_state) ==
    \A k \in KeySet(goal_state) : Has(world_state, k)

initial_state(world_state, goal_state) ==
    [i \in 1..Len(goal_state) |->
        KV(goal_state[i].k, Get(world_state, goal_state[i].k))]

\* The plan of a finished search
PlanOf(s, acts) == create_plan_steps(s.nodes, reconstruct_path(s.parents, s.found), 1, acts)

\* ------------------------------------------------------------------------
\* Action classes used as inputs; each is declared through the metaclass
\* ------------------------------------------------------------------------
D1(k, v) == <<KV(k, v)>>
D2(k1, v1, k2, v2) == <<KV(k1, v1), KV(k2, v2)>>

\* class statements that assign preconditions/effects (and cost, precedence,
\* check_procedural_precondition where given)
Declare(pre, eff) ==
    ClassNew(RegAction, Attrs({"preconditions", "effects"}, pre, eff, 1, 0, TRUE, TRUE))
DeclareCost(pre, eff, cost, precedence) ==
    ClassNew(RegAction, Attrs({"preconditions", "effects", "cost", "precedence"},
                              pre, eff, cost, precedence, TRUE, TRUE))
DeclareVeto(pre, eff) ==
    ClassNew(RegAction, Attrs({"preconditions", "effects", "check_procedural_precondition"},
                              pre, eff, 1, 0, TRUE, FALSE))

Library ==
    << Declare(D1("b", "u"), D1("a", "u")),                    \* 1 a:=u needs b=u
       Declare(EmptyDict, D1("b", "u")),                       \* 2 b:=u
       Declare(EmptyDict, D2("a", "u", "b", "v")),             \* 3 a:=u, b:=v
       Declare(EmptyDict, D1("c", Ellipsis)),                  \* 4 c service
       Declare(D1("c", "v"), D1("a", "u")),                    \* 5 a:=u needs c=v
       Declare(D1("c", reference("b")), D1("b", Ellipsis)),    \* 6 b service, c := ref b
       Declare(D1("a", "v"), D1("a", "u")),                    \* 7 a: v -> u
       Declare(D1("a", "u"), D1("b", "u")),                    \* 8 b:=u needs a=u
       DeclareCost(EmptyDict, D1("a", "u"), 2, 1),             \* 9 a:=u, cost 2, first
       DeclareCost(D1("b", "u"), D1("a", "u"), 0, 0),          \* 10 a:=u needs b=u, free
       DeclareCost(EmptyDict, D1("b", "u"), 0, 0),             \* 11 b:=u, free
       DeclareVeto(EmptyDict, D1("a", "u")) >>                 \* 12 a:=u, vetoed

\* Lists of at most n distinct library classes, one instance each, declared in
\* library order or in the reverse order
ActionLists(n) ==
    UNION {{l \in [1..m -> 1..Len(Library)] :
               \/ \A i, j \in 1..m : i < j => l[i] < l[j]
               \/ \A i, j \in 1..m : i < j => l[i] > l[j]} : m \in 0..n}

Worlds ==
    {wa \o wb \o wc :
        wa \in {EmptyDict, D1("a", "u"), D1("a", "v")},
        wb \in {D1("b", "u"), D1("b", "v")},
        wc \in {EmptyDict, D1("c", "v")}}

Goals == {D1("a", "u"), D1("b", "u"), D2("a", "u", "b", "u"), D2("b", "u", "a", "u")}

\* reg_examples/example1.py, with a for is_spooky, b for is_undead, c for
\* chant_incantation, u for True, v for False and w for the incantation
HauntWithIncantation == Declare(D2("b", "u", "c", "w"), D1("a", "u"))
BecomeUndead == Declare(D1("b", "v"), D1("b", "u"))
ChantIncantationEllipsis == Declare(EmptyDict, D1("c", Ellipsis))
example_1 ==
    [world_state |-> D2("a", "v", "b", "v"),
     goal_state |-> D1("a", "u"),
     actions |-> <<BecomeUndead, HauntWithIncantation, ChantIncantationEllipsis>>]

\* ------------------------------------------------------------------------
\* State
\* ------------------------------------------------------------------------
VARIABLES
    world_state,   \* RegressivePlanner._world_state
    actions,       \* RegressivePlanner._actions: action instances (their classes)
    goal,          \* the goal_state find_plan is called with
    pc,            \* where the call of find_plan stands
    search,        \* the locals of find_path
    outcome,       \* what find_plan returned or raised
    classes,       \* the action classes that exist, in order of creation
    declared,      \* what the last class statement did
    automaton,     \* the fields of an Automaton and of its planner
    controller,    \* the AutomatonController driving it
    observed,      \* history: what the last input did
    arbiter,       \* a controller holding candidate goals
    agent          \* an Agent of mg_port and the history of its step

vars == <<world_state, actions, goal, pc, search, outcome, classes, declared,
          automaton, controller, observed, arbiter, agent>>
arbiterVars == <<arbiter>>
agentVars == <<agent>>
automatonVars == <<automaton, controller, observed>>
plannerVars == <<world_state, actions, goal, pc, search, outcome>>
declVars == <<classes, declared>>

NoDeclared == [result |-> "none", base |-> 0, has |-> {}]
DeclIdle == classes = << >> /\ declared = NoDeclared
NoAutomaton == [impl |-> "none"]
NoController == [pc |-> "none"]
NoObserved == [input |-> "none"]
NoArbiter == [pc |-> "none"]
ArbiterIdle == arbiter = NoArbiter
NoAgent == [pc |-> "none"]
AgentIdle == agent = NoAgent
AutomatonIdle ==
    automaton = NoAutomaton /\ controller = NoController /\ observed = NoObserved

NoSearch == [nodes |-> << >>, g_scores |-> << >>, f_scores |-> << >>,
             parents |-> << >>, candidates |-> EmptyQueue, rejects |-> {},
             i |-> 0, status |-> "none", found |-> 0]
NoOutcome == [status |-> "none", plan |-> << >>]

Init ==
    /\ \/ /\ world_state \in Worlds
          /\ \E l \in ActionLists(MaxActions) :
                actions = [i \in 1..Len(l) |-> Library[l[i]]]
          /\ goal \in Goals
       \/ /\ world_state = example_1.world_state
          /\ actions = example_1.actions
          /\ goal = example_1.goal_state
    /\ pc = "idle"
    /\ search = NoSearch
    /\ outcome = NoOutcome
    /\ DeclIdle
    /\ ArbiterIdle
    /\ AgentIdle
    /\ AutomatonIdle

\* find_plan up to the call of find_path
FindPlanBegin ==
    /\ pc = "idle"
    /\ IF GoalKeysKnown(world_state, goal)
       THEN /\ search' = SearchStart(Node(initial_state(world_state, goal), goal, NoAction))
            /\ pc' = "find_path"
            /\ UNCHANGED outcome
       ELSE /\ outcome' = [status |-> "KeyError", plan |-> << >>]
            /\ pc' = "done"
            /\ UNCHANGED search
    /\ UNCHANGED <<world_state, actions, goal>>
    /\ UNCHANGED <<declVars, automatonVars, arbiterVars, agentVars>>

\* one iteration of the loop of find_path
FindPathIterate ==
    /\ pc = "find_path"
    /\ search.status = "running"
    /\ search.i < MaxExpansions
    /\ search' = FindPathStep(search, world_state, actions)
    /\ UNCHANGED <<world_state, actions, goal, pc, outcome>>
    /\ UNCHANGED <<declVars, automatonVars, arbiterVars, agentVars>>

\* find_path returns or raises, and find_plan with it
FindPlanEnd ==
    /\ pc = "find_path"
    /\ search.status # "running"
    /\ outcome' = [status |-> search.status,
                   plan |-> IF search.status = "found" THEN PlanOf(search, actions)
                            ELSE << >>]
    /\ pc' = "done"
    /\ UNCHANGED <<world_state, actions, goal, search>>
    /\ UNCHANGED <<declVars, automatonVars, arbiterVars, agentVars>>

Next == FindPlanBegin \/ FindPathIterate \/ FindPlanEnd

Spec == Init /\ [][Next]_vars

\* ------------------------------------------------------------------------
\* Declaring action classes (specification SpecDecl)
\* ------------------------------------------------------------------------
MaxClasses == 2

\* the preconditions and the effects a class body may assign
DeclPreconditions ==
    {EmptyDict, D1("b", "u"), D1("b", reference("a")), D1("b", reference("c")),
     D1("b", Ellipsis), D2("a", "u", "b", reference("c"))}
DeclEffects == {EmptyDict, D1("a", "u"), D1("a", Ellipsis), D1("c", Ellipsis)}

\* the class bodies: each assigns preconditions, effects, both or neither
DeclAttrs ==
    {Attrs(has, pre, eff, 1, 0, TRUE, TRUE) :
        has \in SUBSET {"preconditions", "effects"},
        pre \in DeclPreconditions, eff \in DeclEffects}

\* positions of the classes a class statement may name as its base; 0 is RegAction
Bases == 0..Len(classes)
BaseClass(b) == IF b = 0 THEN RegAction ELSE classes[b]

InitDecl ==
    /\ world_state = EmptyDict
    /\ actions = << >>
    /\ goal = EmptyDict
    /\ pc = "idle"
    /\ search = NoSearch
    /\ outcome = NoOutcome
    /\ DeclIdle
    /\ ArbiterIdle
    /\ AgentIdle
    /\ AutomatonIdle

\* a class statement whose body passes RegActionValidator.__new__
ClassCreated ==
    /\ Len(classes) < MaxClasses
    /\ \E b \in Bases, attrs \in DeclAttrs :
        /\ \A n \in AttrNames \ attrs.has : attrs[n] = RegAction[n]
        /\ ClassNewResult(attrs) = "ok"
        /\ classes' = Append(classes, ClassNew(BaseClass(b), attrs))
        /\ declared' = [result |-> "ok", base |-> b, has |-> attrs.has]
    /\ UNCHANGED <<plannerVars, automatonVars, arbiterVars, agentVars>>

\* a class statement RegActionValidator.__new__ raises on: no class is created
ClassRejected ==
    /\ Len(classes) < MaxClasses
    /\ \E b \in Bases, attrs \in DeclAttrs :
        /\ \A n \in AttrNames \ attrs.has : attrs[n] = RegAction[n]
        /\ ClassNewResult(attrs) # "ok"
        /\ declared' = [result |-> ClassNewResult(attrs), base |-> b,
                        has |-> attrs.has]
    /\ UNCHANGED classes
    /\ UNCHANGED <<plannerVars, automatonVars, arbiterVars, agentVars>>

NextDecl == ClassCreated \/ ClassRejected

SpecDecl == InitDecl /\ [][NextDecl]_vars

\* ------------------------------------------------------------------------
\* find_plan as one call (the automaton's planner)
\* ------------------------------------------------------------------------
\* the loop of find_path run until it returns or raises; a search still
\* "running" after MaxExpansions iterations has not returned
RECURSIVE FindPathRun(_, _, _)
FindPathRun(s, world, acts) ==
    IF s.status # "running" \/ s.i >= MaxExpansions THEN s
    ELSE FindPathRun(FindPathStep(s, world, acts), world, acts)

\* what find_plan returns or raises once find_path has ended in s
FindPlanResult(s, acts) ==
    [status |-> s.status,
     plan |-> IF s.status = "found" THEN PlanOf(s, acts) ELSE << >>]

find_plan(world, acts, goal_state) ==
    IF ~GoalKeysKnown(world, goal_state)
    THEN [status |-> "KeyError", plan |-> << >>]
    ELSE FindPlanResult(
             FindPathRun(SearchStart(Node(initial_state(world, goal_state),
                                          goal_state, NoAction)),
                         world, acts),
             acts)

\* ------------------------------------------------------------------------
\* The state machines of the two Automaton classes
\* ------------------------------------------------------------------------
States == {"waiting_orders", "sensing", "planning", "acting"}

\* SimpleMethodicalMachine (ref_goap.py): an input without a transition from
\* the current state leaves the state as it is
SM_input_goal(state) == "waiting_orders"
SM_wait(state) == "waiting_orders"
SM_sense(state) == IF state \in {"waiting_orders", "acting"} THEN "sensing" ELSE state
SM_plan(state) == IF state = "sensing" THEN "planning" ELSE state
SM_act(state) == IF state = "planning" THEN "acting" ELSE state
SM_next_cycle(state) == IF state = "acting" THEN "sensing" ELSE state

\* the transitions declared with MethodicalMachine (goap.py, nx_goap.py)
upon(from, input, enter, outputs) ==
    [from |-> from, input |-> input, enter |-> enter, outputs |-> outputs]
\* a table whose wait stays in SENSING
machine_wait_stays ==
    {upon("waiting_orders", "sense", "sensing", <<"__sense">>),
     upon("sensing", "plan", "planning", <<"__plan">>),
     upon("planning", "act", "acting", <<"__act">>),
     upon("acting", "sense", "sensing", <<"__reset_working_memory", "__sense">>),
     upon("waiting_orders", "input_goal", "waiting_orders", <<"__input_goal">>),
     upon("planning", "input_goal", "waiting_orders", <<"__input_goal">>),
     upon("acting", "input_goal", "waiting_orders", <<"__input_goal">>),
     upon("sensing", "wait", "sensing", <<"__reset_working_memory">>)}

machine ==
    {upon("waiting_orders", "sense", "sensing", <<"__sense">>),
     upon("sensing", "plan", "planning", <<"__plan">>),
     upon("planning", "act", "acting", <<"__act">>),
     upon("acting", "sense", "sensing", <<"__reset_working_memory", "__sense">>),
     upon("waiting_orders", "input_goal", "waiting_orders", <<"__input_goal">>),
     upon("planning", "input_goal", "waiting_orders", <<"__input_goal">>),
     upon("acting", "input_goal", "waiting_orders", <<"__input_goal">>),
     upon("sensing", "wait", "waiting_orders", <<"__reset_working_memory">>)}
HasTransition(state, input) == \E t \in machine : t.from = state /\ t.input = input
Transition(state, input) == CHOOSE t \in machine : t.from = state /\ t.input = input

\* ------------------------------------------------------------------------
\* Executing actions forwards (what a plan does to a world state)
\* ------------------------------------------------------------------------
\* every key of goal_state has its demanded value in `state`
Satisfies(state, goal_state) ==
    \A i \in 1..Len(goal_state) :
        /\ Has(state, goal_state[i].k)
        /\ Get(state, goal_state[i].k) = goal_state[i].v

\* a loop over the effects that writes every value, the sentinel included
RECURSIVE WriteEveryEffect(_, _, _)
WriteEveryEffect(state, effects, i) ==
    IF i > Len(effects) THEN state
    ELSE WriteEveryEffect(Put(state, effects[i].k, effects[i].v), effects, i + 1)

\* Automaton.act writes the effects that are not Ellipsis into the world state
RECURSIVE WriteLiteralEffects(_, _, _)
WriteLiteralEffects(state, effects, i) ==
    IF i > Len(effects) THEN state
    ELSE WriteLiteralEffects(
             IF effects[i].v # Ellipsis THEN Put(state, effects[i].k, effects[i].v)
             ELSE state,
             effects, i + 1)

\* the literal effects of the steps i.. of a plan, applied in plan order
RECURSIVE ApplyPlanLiterals(_, _, _, _)
ApplyPlanLiterals(state, plan, i, acts) ==
    IF i > Len(plan) THEN state
    ELSE ApplyPlanLiterals(WriteLiteralEffects(state, acts[plan[i].action].effects, 1),
                           plan, i + 1, acts)

\* the summed get_cost of a plan's steps
RECURSIVE PlanCost(_, _, _)
PlanCost(plan, i, acts) ==
    IF i > Len(plan) THEN 0
    ELSE acts[plan[i].action].cost + PlanCost(plan, i + 1, acts)

\* ------------------------------------------------------------------------
\* Valid plans: action sequences executable from a world state, each action's
\* preconditions holding when it runs, that end in a state satisfying the goal
\* ------------------------------------------------------------------------
WorldFn(world) == [k \in Keys |-> GetOr(world, k, NOT_DEFINED)]
ServiceKeys(act) == {act.effects[i].k : i \in {j \in 1..Len(act.effects) : act.effects[j].v = Ellipsis}}

\* the value an executed action gives its effect n, under service binding b
EffectValue(act, b, n) ==
    IF Get(act.effects, n) = Ellipsis THEN b[n] ELSE Get(act.effects, n)

Executable(state, act, b) ==
    /\ act.check_procedural_precondition
    /\ \A i \in 1..Len(act.preconditions) :
          LET v == act.preconditions[i].v
          IN  state[act.preconditions[i].k] =
                IF IsReference(v) THEN EffectValue(act, b, goap_effect_reference(v)) ELSE v

Execute(state, act, b) ==
    [k \in Keys |-> IF Has(act.effects, k) THEN EffectValue(act, b, k) ELSE state[k]]

\* the cheapest <<state, cost>> pairs reachable, as a fixpoint
Cheapest(S) == {p \in S : \A q \in S : q[1] = p[1] => p[2] <= q[2]}
RECURSIVE ReachCosts(_, _)
ReachCosts(S, acts) ==
    LET step == UNION {UNION {{<<Execute(p[1], acts[a], b), p[2] + acts[a].cost>> :
                                  b \in {c \in [ServiceKeys(acts[a]) -> Vals] :
                                            Executable(p[1], acts[a], c)}} :
                              a \in 1..Len(acts)} : p \in S}
        T == Cheapest(S \cup step)
    IN  IF T = S THEN S ELSE ReachCosts(T, acts)

\* the least summed cost of a valid plan, -1 when there is none
MinValidCost(world, acts, goal_state) ==
    LET R == ReachCosts({<<WorldFn(world), 0>>}, acts)
        G == {p \in R : \A i \in 1..Len(goal_state) : p[1][goal_state[i].k] = goal_state[i].v}
    IN  IF G = {} THEN -1
        ELSE (CHOOSE p \in G : \A q \in G : p[2] <= q[2])[2]

\* ------------------------------------------------------------------------
\* Automaton: goap.py (driven by the MethodicalMachine transitions) and
\* ref_goap.py (driven by SimpleMethodicalMachine)
\* ------------------------------------------------------------------------
Sensor(name, binding) == [name |-> name, binding |-> binding]
Fact(sensor, binding, data) == [sensor |-> sensor, binding |-> binding, data |-> data]

\* Automaton.__init__: the planner is constructed with the very world state
\* object the automaton holds (`shared`)
NewAutomaton(impl, sensors, acts, world) ==
    [impl |-> impl, state |-> "waiting_orders", world_state |-> world,
     planner_world_state |-> world, shared |-> TRUE,
     working_memory |-> << >>, sensors |-> sensors, actions |-> acts,
     action_plan |-> << >>, goal |-> EmptyDict]

\* a write into automaton.world_state, seen by the planner while it holds the
\* same object
SetWorld(am, world) ==
    [am EXCEPT !.world_state = world,
               !.planner_world_state = IF am.shared THEN world ELSE @]

\* What a call of an input did: the automaton afterwards, the exception that
\* left the call ("none" when it returned), whether find_plan was called,
\* whether it returned a plan, and the plan steps executed (their positions)
Returns(am) ==
    [am |-> am, raised |-> "none", planned |-> FALSE, produced |-> FALSE,
     executed |-> << >>]
Raises(am, exception) == [Returns(am) EXCEPT !.raised = exception]

\* ref_goap.py sense: each sensor's fact is appended and written in turn
RECURSIVE RefRunSensors(_, _, _)
RefRunSensors(am, readings, i) ==
    IF i > Len(am.sensors) THEN am
    ELSE LET s == am.sensors[i]
             f == Fact(s.name, s.binding, readings[i])
             appended == [am EXCEPT !.working_memory = Append(@, f)]
         IN  RefRunSensors(SetWorld(appended, Put(am.world_state, s.binding, f.data)),
                           readings, i + 1)

\* a loop over the steps of action_plan that takes the last step first
RECURSIVE RefExecuteStepsLastFirst(_, _)
RefExecuteStepsLastFirst(am, i) ==
    IF i > Len(am.action_plan) THEN am
    ELSE LET cls == am.actions[am.action_plan[Len(am.action_plan) + 1 - i].action]
         IN  RefExecuteStepsLastFirst(
                 IF cls.apply_effects_on_exit
                 THEN SetWorld(am, WriteLiteralEffects(am.world_state, cls.effects, 1))
                 ELSE am,
                 i + 1)

\* ref_goap.py act: the loop over the steps of action_plan
RECURSIVE RefExecuteSteps(_, _)
RefExecuteSteps(am, i) ==
    IF i > Len(am.action_plan) THEN am
    ELSE LET cls == am.actions[am.action_plan[i].action]
         IN  RefExecuteSteps(
                 IF cls.apply_effects_on_exit
                 THEN SetWorld(am, WriteLiteralEffects(am.world_state, cls.effects, 1))
                 ELSE am,
                 i + 1)

\* ref_goap.py plan once the state machine has moved and find_plan has ended
\* in r: the plan is stored; a PlanFailed empties action_plan and is raised
\* again; any other exception leaves plan() as it is
RefPlan(moved, r) ==
    IF moved.state # "planning" THEN Returns(moved)
    ELSE IF r.status = "found"
    THEN [Returns([moved EXCEPT !.action_plan = r.plan])
              EXCEPT !.planned = TRUE, !.produced = TRUE]
    ELSE IF r.status = "PlanFailed"
    THEN [Raises([moved EXCEPT !.action_plan = << >>], "PlanFailed")
              EXCEPT !.planned = TRUE]
    ELSE [Raises(moved, r.status) EXCEPT !.planned = TRUE]

\* ref_goap.py act once the state machine has moved
RefAct(moved) ==
    IF moved.state # "acting" THEN Returns(moved)
    ELSE [Returns([RefExecuteSteps(moved, 1) EXCEPT !.state = SM_next_cycle(@)])
              EXCEPT !.executed = [i \in 1..Len(moved.action_plan) |-> i]]

\* ref_goap.py sense once the state machine has moved
RefSense(moved, readings) ==
    IF moved.state = "sensing" THEN Returns(RefRunSensors(moved, readings, 1))
    ELSE Returns(moved)

\* Automaton.input_goal, wait, sense, plan, act of ref_goap.py
RefInput(am, input, g, readings) ==
    CASE input = "input_goal" ->
            Returns([am EXCEPT !.state = SM_input_goal(am.state), !.goal = g])
      [] input = "wait" ->
            Returns([am EXCEPT !.state = SM_wait(am.state)])
      [] input = "sense" ->
            RefSense([am EXCEPT !.state = SM_sense(am.state)], readings)
      [] input = "plan" ->
            RefPlan([am EXCEPT !.state = SM_plan(am.state)],
                    find_plan(am.planner_world_state, am.actions, am.goal))
      [] input = "act" ->
            RefAct([am EXCEPT !.state = SM_act(am.state)])

\* goap.py __sense_environment: a fact per sensor is appended, then every
\* fact of working memory is written to the world state
RECURSIVE WriteFacts(_, _)
WriteFacts(am, i) ==
    IF i > Len(am.working_memory) THEN am
    ELSE WriteFacts(SetWorld(am, Put(am.world_state, am.working_memory[i].binding,
                                     am.working_memory[i].data)),
                    i + 1)

\* goap.py __sense_environment: a fact per sensor is appended, then every fact
\* of the working memory is written, oldest first; the variant writes the
\* newest fact first, so that an older fact of the same binding wins
sense_environment_newest_first(am, readings) ==
    LET facts == [i \in 1..Len(am.sensors) |->
                     Fact(am.sensors[i].name, am.sensors[i].binding, readings[i])]
    IN  [WriteFacts([am EXCEPT !.working_memory = Reverse(@ \o facts)], 1)
            EXCEPT !.working_memory = am.working_memory \o facts]
sense_environment(am, readings) ==
    LET facts == [i \in 1..Len(am.sensors) |->
                     Fact(am.sensors[i].name, am.sensors[i].binding, readings[i])]
    IN  WriteFacts([am EXCEPT !.working_memory = @ \o facts], 1)

\* the outputs of goap.py.  __plan calls find_plan(self.goal, self.world_state),
\* one argument more than find_plan takes; __act calls step.action.exec(),
\* which no action has.
Output(am, output, g, readings) ==
    CASE output = "__sense" -> Returns(sense_environment(am, readings))
      [] output = "__plan" -> Raises(am, "TypeError")
      [] output = "__act" ->
            IF am.action_plan = << >> THEN Returns(am)
            ELSE Raises(am, "AttributeError")
      [] output = "__input_goal" -> Returns([am EXCEPT !.goal = g])
      [] output = "__reset_working_memory" ->
            Returns([am EXCEPT !.working_memory = << >>])

RECURSIVE RunOutputs(_, _, _, _, _)
RunOutputs(am, outputs, i, g, readings) ==
    IF i > Len(outputs) THEN Returns(am)
    ELSE LET r == Output(am, outputs[i], g, readings)
         IN  IF r.raised # "none" THEN r
             ELSE RunOutputs(r.am, outputs, i + 1, g, readings)

\* an input of goap.py: without a transition NoTransition is raised; with
\* one the state is entered and then the outputs run
MachineInput(am, input, g, readings) ==
    IF ~HasTransition(am.state, input) THEN Raises(am, "NoTransition")
    ELSE LET t == Transition(am.state, input)
         IN  RunOutputs([am EXCEPT !.state = t.enter], t.outputs, 1, g, readings)

Input(am, input, g, readings) ==
    IF am.impl = "ref_goap" THEN RefInput(am, input, g, readings)
    ELSE MachineInput(am, input, g, readings)

\* ------------------------------------------------------------------------
\* An automaton driven input by input (specification SpecAutomaton)
\* ------------------------------------------------------------------------
MaxFacts == 3

Impls == {"goap", "ref_goap"}
SensorLists == {<< >>, <<Sensor("sb", "b")>>, <<Sensor("sb", "b"), Sensor("sa", "a")>>}
SensorValues == {"u", "v"}
AutomatonActionLists == {<<1, 2>>, <<2, 3>>, <<5, 4>>}
AutomatonWorlds ==
    {D2("a", "v", "b", "v"), D2("a", "v", "b", "u"), D1("b", "v"),
     D2("b", "v", "c", "u")}
AutomatonGoals ==
    {EmptyDict, D1("a", "u"), D1("b", "u"), D1("b", "v"), D1("c", "v"),
     D2("a", "u", "b", "u")}
Readings(am) == [1..Len(am.sensors) -> SensorValues]

Automatons ==
    {NewAutomaton(impl, sensors, [i \in 1..Len(l) |-> Library[l[i]]], world) :
        impl \in Impls, sensors \in SensorLists,
        l \in AutomatonActionLists, world \in AutomatonWorlds}

\* History of a run.  Of the last input: its name and argument, the state it
\* was sent in, and what the call did (see Returns), with
\*   ran_stale  it executed steps of a plan older than the last input_goal,
\*   ran_again  it executed a step already executed since the planner last
\*              returned a plan.
\* Of the run: stale, an input_goal was accepted since the planner last
\* returned a plan; ran, the steps executed since it did.
FirstObserved ==
    [input |-> "none", g |-> EmptyDict, from |-> "waiting_orders",
     raised |-> "none", planned |-> FALSE, produced |-> FALSE,
     executed |-> << >>, ran_stale |-> FALSE, ran_again |-> FALSE,
     stale |-> FALSE, ran |-> {}]

Observe(obs, am, input, g, r) ==
    LET steps == {r.executed[i] : i \in 1..Len(r.executed)}
    IN  [input |-> input, g |-> g, from |-> am.state,
         raised |-> r.raised, planned |-> r.planned, produced |-> r.produced,
         executed |-> r.executed,
         ran_stale |-> steps # {} /\ obs.stale,
         ran_again |-> steps \cap obs.ran # {},
         stale |-> IF r.produced THEN FALSE
                   ELSE IF input = "input_goal" /\ r.raised = "none" THEN TRUE
                   ELSE obs.stale,
         ran |-> IF r.produced THEN {} ELSE obs.ran \cup steps]

\* a call of an input that did r (a call of plan in which find_path does not
\* end has not returned)
Called(input, g, r) ==
    /\ r.raised # "running"
    /\ automaton' = r.am
    /\ observed' = Observe(observed, automaton, input, g, r)

\* the call of an input with its arguments, recorded in the history
Send(input, g, readings) == Called(input, g, Input(automaton, input, g, readings))

NoReadings == << >>

InitAutomaton ==
    /\ world_state = EmptyDict
    /\ actions = << >>
    /\ goal = EmptyDict
    /\ pc = "idle"
    /\ search = NoSearch
    /\ outcome = NoOutcome
    /\ DeclIdle
    /\ ArbiterIdle
    /\ AgentIdle
    /\ automaton \in Automatons
    /\ controller = NoController
    /\ observed = FirstObserved

InputGoal ==
    /\ \E g \in AutomatonGoals : Send("input_goal", g, NoReadings)
    /\ UNCHANGED <<plannerVars, declVars, arbiterVars, agentVars, controller>>

Wait ==
    /\ Send("wait", EmptyDict, NoReadings)
    /\ UNCHANGED <<plannerVars, declVars, arbiterVars, agentVars, controller>>

Sense ==
    /\ Len(automaton.working_memory) + Len(automaton.sensors) <= MaxFacts
    /\ \E readings \in Readings(automaton) : Send("sense", EmptyDict, readings)
    /\ UNCHANGED <<plannerVars, declVars, arbiterVars, agentVars, controller>>

Plan ==
    /\ Send("plan", EmptyDict, NoReadings)
    /\ UNCHANGED <<plannerVars, declVars, arbiterVars, agentVars, controller>>

Act ==
    /\ Send("act", EmptyDict, NoReadings)
    /\ UNCHANGED <<plannerVars, declVars, arbiterVars, agentVars, controller>>

NextAutomaton == InputGoal \/ Wait \/ Sense \/ Plan \/ Act

SpecAutomaton == InitAutomaton /\ [][NextAutomaton]_vars

\* ------------------------------------------------------------------------
\* AutomatonController.start, the drive loop (specification SpecController)
\* ------------------------------------------------------------------------
\* History of the tick in progress (or just ended): planning failed in it,
\* the number of plan steps executed in it, find_plan was called in it, the
\* branch the test of the goal took ("wait" or "plan") and the world state
\* and the goal it was taken on
NoTick ==
    [plan_failed |-> FALSE, executed |-> 0, planned |-> FALSE,
     branch |-> "none", world |-> EmptyDict, goal |-> EmptyDict]

\* pc is where start() stands: "idle" not called or returned, "loop" at the
\* test of the while, "sense" .. "tick_end" inside a tick, "raised" left by
\* an exception
\* prev is the history of the tick before the one in progress; stopped, that
\* stop() was called since start() was
NewController ==
    [pc |-> "idle", running |-> FALSE, tick |-> NoTick, prev |-> NoTick,
     stopped |-> FALSE]

\* the test of the goal in the loop: goal_satisfied() in ref_goap.py, and
\* `not (world_state != goal)` in goap.py, an equality of dicts
goal_satisfied(am) ==
    IF am.impl = "ref_goap" THEN Satisfies(am.world_state, am.goal)
    ELSE DictEq(am.world_state, am.goal)

\* start() after an input that did r: it goes on to `then`, unless an
\* exception leaves it (ref_goap.py catches the PlanFailed of plan)
Driven(input, r, then) ==
    LET failed == input = "plan" /\ r.raised # "none"
        caught == /\ automaton.impl = "ref_goap"
                  /\ input = "plan"
                  /\ r.raised = "PlanFailed"
    IN  controller' =
             [controller EXCEPT
                !.pc = IF r.raised = "none" \/ caught THEN then ELSE "raised",
                !.tick = [plan_failed |-> @.plan_failed \/ failed,
                          executed |-> @.executed + Len(r.executed),
                          planned |-> @.planned \/ r.planned,
                          branch |-> IF input \in {"wait", "plan"} THEN input
                                     ELSE @.branch,
                          world |-> IF input \in {"wait", "plan"}
                                    THEN automaton.world_state ELSE @.world,
                          goal |-> IF input \in {"wait", "plan"}
                                   THEN automaton.goal ELSE @.goal]]

\* the controller sends an input
Drive(input, readings, then) ==
    /\ Send(input, EmptyDict, readings)
    /\ Driven(input, observed', then)

InitController ==
    /\ world_state = EmptyDict
    /\ actions = << >>
    /\ goal = EmptyDict
    /\ pc = "idle"
    /\ search = NoSearch
    /\ outcome = NoOutcome
    /\ DeclIdle
    /\ ArbiterIdle
    /\ AgentIdle
    /\ automaton \in Automatons
    /\ controller = NewController
    /\ observed = FirstObserved

\* start() is called
Start ==
    /\ controller.pc = "idle"
    /\ controller' = [controller EXCEPT !.pc = "loop", !.running = TRUE,
                                        !.tick = NoTick, !.prev = NoTick,
                                        !.stopped = FALSE]
    /\ UNCHANGED <<plannerVars, declVars, arbiterVars, agentVars, automaton, observed>>

\* the loop test holds (`while True` in goap.py): a tick begins
TickBegin ==
    /\ controller.pc = "loop"
    /\ automaton.impl = "ref_goap" => controller.running
    /\ controller' = [controller EXCEPT !.pc = "sense", !.tick = NoTick,
                                        !.prev = controller.tick]
    /\ UNCHANGED <<plannerVars, declVars, arbiterVars, agentVars, automaton, observed>>

\* the loop test fails: start() returns
StartReturns ==
    /\ controller.pc = "loop"
    /\ automaton.impl = "ref_goap"
    /\ ~controller.running
    /\ controller' = [controller EXCEPT !.pc = "idle"]
    /\ UNCHANGED <<plannerVars, declVars, arbiterVars, agentVars, automaton, observed>>

TickSense ==
    /\ controller.pc = "sense"
    /\ Len(automaton.working_memory) + Len(automaton.sensors) <= MaxFacts
    /\ \E readings \in Readings(automaton) : Drive("sense", readings, "check")
    /\ UNCHANGED <<plannerVars, declVars, arbiterVars, agentVars>>

\* the goal is achieved: wait
TickWait ==
    /\ controller.pc = "check"
    /\ goal_satisfied(automaton)
    /\ Drive("wait", NoReadings, "tick_end")
    /\ UNCHANGED <<plannerVars, declVars, arbiterVars, agentVars>>

\* the goal is not achieved: plan ...
TickPlan ==
    /\ controller.pc = "check"
    /\ ~goal_satisfied(automaton)
    /\ Drive("plan", NoReadings, "act")
    /\ UNCHANGED <<plannerVars, declVars, arbiterVars, agentVars>>

\* ... and act
TickAct ==
    /\ controller.pc = "act"
    /\ Drive("act", NoReadings, "tick_end")
    /\ UNCHANGED <<plannerVars, declVars, arbiterVars, agentVars>>

\* the end of the body of the loop: ref_goap.py clears _running when the goal
\* is achieved, goap.py sleeps
TickEnd ==
    /\ controller.pc = "tick_end"
    /\ controller' =
         [controller EXCEPT
            !.pc = "loop",
            !.running = IF automaton.impl = "ref_goap" /\ goal_satisfied(automaton)
                        THEN FALSE ELSE @]
    /\ UNCHANGED <<plannerVars, declVars, arbiterVars, agentVars, automaton, observed>>

\* a goal is given before start() or between two ticks: the goal setter of
\* goap.py's controller, automaton.input_goal in ref_goap.py
SetGoal ==
    /\ controller.pc \in {"idle", "loop"}
    /\ \E g \in AutomatonGoals : Send("input_goal", g, NoReadings)
    /\ UNCHANGED <<plannerVars, declVars, arbiterVars, agentVars, controller>>

\* stop() is called while the loop runs: ref_goap.py clears _running;
\* goap.py's controller defines no stop, so there the call raises
\* AttributeError in its caller and the loop is not touched
Stop ==
    /\ controller.pc \notin {"idle", "raised"}
    /\ ~controller.stopped
    /\ controller' =
         [controller EXCEPT
            !.stopped = TRUE,
            !.running = IF automaton.impl = "ref_goap" THEN FALSE ELSE @]
    /\ UNCHANGED <<plannerVars, declVars, arbiterVars, agentVars, automaton, observed>>

\* the world_state setter of goap.py's controller, before start() or between
\* two ticks: automaton.world_state becomes another object, the planner keeps
\* the one it was constructed with
SetWorldState ==
    /\ controller.pc \in {"idle", "loop"}
    /\ automaton.impl = "goap"
    /\ \E value \in AutomatonWorlds :
          automaton' = [automaton EXCEPT !.world_state = value, !.shared = FALSE]
    /\ UNCHANGED <<plannerVars, declVars, arbiterVars, agentVars, controller, observed>>

NextController ==
    \/ Start \/ TickBegin \/ StartReturns \/ TickSense \/ TickWait \/ TickPlan
    \/ TickAct \/ TickEnd \/ SetGoal \/ Stop \/ SetWorldState

SpecController == InitController /\ [][NextController]_vars

\* ------------------------------------------------------------------------
\* Goal arbitration (specification SpecArbiter).  The examples construct
\* AutomatonController(..., possible_goals=[...]) with RegGoal classes
\* (desired_state, preconditions, priority); that controller is not among
\* the sources, so its arbitration follows the controller's description.
\* ------------------------------------------------------------------------
MaxGoals == 3

RegGoal(desired_state, preconditions, priority) ==
    [desired_state |-> desired_state, preconditions |-> preconditions,
     priority |-> priority]

\* a goal is eligible when the world state satisfies its preconditions
Eligible(g, world) == Satisfies(world, g.preconditions)

\* a scan that keeps the last eligible goal of the largest priority
RECURSIVE ArbitrateLatest(_, _, _, _)
ArbitrateLatest(goals, world, i, best) ==
    IF i > Len(goals) THEN best
    ELSE ArbitrateLatest(goals, world, i + 1,
             IF /\ Eligible(goals[i], world)
                /\ (best = 0 \/ goals[i].priority >= goals[best].priority)
             THEN i ELSE best)

\* the candidates are scanned in declaration order, keeping the first
\* eligible one with the largest priority; 0 when none is eligible
RECURSIVE Arbitrate(_, _, _, _)
Arbitrate(goals, world, i, best) ==
    IF i > Len(goals) THEN best
    ELSE Arbitrate(goals, world, i + 1,
             IF /\ Eligible(goals[i], world)
                /\ (best = 0 \/ goals[i].priority > goals[best].priority)
             THEN i ELSE best)

GoalDecls ==
    {RegGoal(D1("a", "u"), pre, priority) :
        pre \in {EmptyDict, D1("b", "u"), D1("a", "v")}, priority \in {1, 2}}
GoalLists == UNION {[1..n -> GoalDecls] : n \in 1..MaxGoals}
ArbiterWorlds == {D2("a", va, "b", vb) : va \in Vals, vb \in Vals}

InitArbiter ==
    /\ world_state = EmptyDict
    /\ actions = << >>
    /\ goal = EmptyDict
    /\ pc = "idle"
    /\ search = NoSearch
    /\ outcome = NoOutcome
    /\ DeclIdle
    /\ AutomatonIdle
    /\ AgentIdle
    /\ \E goals \in GoalLists, world \in ArbiterWorlds :
          arbiter = [pc |-> "arbitrate", possible_goals |-> goals,
                     world_state |-> world, active |-> 0, plan_valid |-> FALSE]

\* the start of a tick: the active goal is chosen; a change of the active
\* goal invalidates the current plan
ArbiterTick ==
    /\ arbiter.pc = "arbitrate"
    /\ arbiter' =
         [arbiter EXCEPT
            !.pc = "sense",
            !.active = Arbitrate(arbiter.possible_goals, arbiter.world_state, 1, 0),
            !.plan_valid =
                @ /\ arbiter.active =
                        Arbitrate(arbiter.possible_goals, arbiter.world_state, 1, 0)]
    /\ UNCHANGED <<plannerVars, declVars, automatonVars, agentVars>>

\* the rest of the tick: a sensor writes its binding, the active goal is
\* planned for
ArbiterSense ==
    /\ arbiter.pc = "sense"
    /\ \E k \in {"a", "b"}, v \in SensorValues :
          arbiter' = [arbiter EXCEPT !.pc = "arbitrate",
                                     !.world_state = Put(@, k, v),
                                     !.plan_valid = arbiter.active # 0]
    /\ UNCHANGED <<plannerVars, declVars, automatonVars, agentVars>>

NextArbiter == ArbiterTick \/ ArbiterSense

SpecArbiter == InitArbiter /\ [][NextArbiter]_vars

\* ------------------------------------------------------------------------
\* mg_port: Agent.step, one statement at a time (specification SpecAgent)
\* ------------------------------------------------------------------------
MaxSensors == 2
MaxPlan == 2

StepMode == {"DEFAULT", "ONE_ACTION"}
\* the members of ExecutionStatus, and a return value that is none of them
ExecutionStatus == {"SUCCEEDED", "FAILED", "EXECUTING"}
ExecutorReturns == ExecutionStatus \cup {"other"}

\* current_plan: None or a list of actions
NonePlan == [is_none |-> TRUE, list |-> << >>]
PlanList(l) == [is_none |-> FALSE, list |-> l]

\* what orchestrate_planning hands back: None or a plan of at least one action
AgentActions == {1, 2}
PlannerReturns ==
    {NonePlan} \cup {PlanList(l) : l \in UNION {[1..n -> AgentActions] : n \in 1..MaxPlan}}

\* the key written by the callback of the i-th sensor
SensorKey(i) == <<"a", "b", "c">>[((i - 1) % 3) + 1]

\* History of an agent: log, the calls made by the current step;
\* after_sensing, current_plan as the sensors of the step left it; status and
\* prev_status, what the executor returned in this step and in the step
\* before ("none" without a call); adopted, the plan orchestrate_planning
\* returned last; clean, every executor called since has returned SUCCEEDED;
\* succeeded, the actions executed since while clean.
\* an entry of the record of calls made by a step
Call(kind, arg) == [kind |-> kind, arg |-> arg]

\* Agent.__init__
NewAgent(n, state) ==
    [pc |-> "idle", mode |-> "DEFAULT", sensors |-> n, i |-> 1,
     state |-> state, current_plan |-> NonePlan,
     log |-> << >>, after_sensing |-> NonePlan, returned |-> FALSE,
     status |-> "none", prev_status |-> "none",
     adopted |-> << >>, succeeded |-> << >>, clean |-> FALSE]

\* _run_sensors: the loop over self.sensors has ended; the variant stops
\* after the first sensor
run_sensors_done_after_first(ag) == ag.i > (IF ag.sensors > 1 THEN 1 ELSE ag.sensors)
run_sensors_done(ag) == ag.i > ag.sensors

\* step: needs_new_plan; the variant tests for None alone
needs_new_plan_none_only(plan) == plan.is_none
needs_new_plan(plan) == plan.is_none \/ Len(plan.list) = 0

\* _execute_current_action, SUCCEEDED: self.current_plan.pop(0); the variant
\* pops the last action
pop_last(plan) == PlanList(SubSeq(plan.list, 1, Len(plan.list) - 1))
pop_first(plan) == PlanList(Tail(plan.list))

\* _execute_current_action: current_plan after the executor returned status;
\* the variant keeps the plan when status is no member of ExecutionStatus
handle_execution_status_unknown_kept(plan, status) ==
    CASE status = "SUCCEEDED" -> pop_first(plan)
      [] status = "FAILED" -> NonePlan
      [] OTHER -> plan
handle_execution_status(plan, status) ==
    CASE status = "SUCCEEDED" -> pop_first(plan)
      [] status = "FAILED" -> NonePlan
      [] status = "EXECUTING" -> plan
      [] OTHER -> NonePlan

InitAgent ==
    /\ world_state = EmptyDict
    /\ actions = << >>
    /\ goal = EmptyDict
    /\ pc = "idle"
    /\ search = NoSearch
    /\ outcome = NoOutcome
    /\ DeclIdle
    /\ AutomatonIdle
    /\ ArbiterIdle
    /\ \E n \in 0..MaxSensors, state \in {EmptyDict, D1("a", "v")} :
          agent = NewAgent(n, state)

\* step(mode) is called
AgentStep ==
    /\ agent.pc = "idle"
    /\ \E mode \in StepMode :
          agent' = [agent EXCEPT !.pc = "sensors", !.mode = mode, !.i = 1,
                                 !.log = << >>, !.returned = FALSE,
                                 !.prev_status = agent.status, !.status = "none"]
    /\ UNCHANGED <<plannerVars, declVars, automatonVars, arbiterVars>>

\* _run_sensors: sensor.run(self.state) of the next sensor
AgentRunSensor ==
    /\ agent.pc = "sensors"
    /\ ~run_sensors_done(agent)
    /\ \E v \in SensorValues :
          agent' = [agent EXCEPT !.state = Put(@, SensorKey(agent.i), v),
                                 !.log = Append(@, Call("sensor", agent.i)),
                                 !.i = @ + 1]
    /\ UNCHANGED <<plannerVars, declVars, automatonVars, arbiterVars>>

\* step 2 and 3: needs_new_plan and the branch on the mode
AgentCheckPlan ==
    /\ agent.pc = "sensors"
    /\ run_sensors_done(agent)
    /\ agent' = [agent EXCEPT
                    !.after_sensing = agent.current_plan,
                    !.pc = IF /\ needs_new_plan(agent.current_plan)
                              /\ agent.mode \in {"DEFAULT", "ONE_ACTION"}
                           THEN "plan" ELSE "act"]
    /\ UNCHANGED <<plannerVars, declVars, automatonVars, arbiterVars>>

\* _find_new_plan: self.current_plan = planner.orchestrate_planning(self)
AgentFindNewPlan ==
    /\ agent.pc = "plan"
    /\ \E plan \in PlannerReturns :
          agent' = [agent EXCEPT !.current_plan = plan,
                                 !.log = Append(@, Call("planner", 0)),
                                 !.adopted = plan.list, !.succeeded = << >>,
                                 !.clean = ~plan.is_none,
                                 !.pc = "act"]
    /\ UNCHANGED <<plannerVars, declVars, automatonVars, arbiterVars>>

\* step 4: _execute_current_action when there is a plan, and the return
AgentExecute ==
    /\ agent.pc = "act"
    /\ IF ~agent.current_plan.is_none /\ Len(agent.current_plan.list) > 0
       THEN \E status \in ExecutorReturns :
               agent' = [agent EXCEPT
                           !.current_plan = handle_execution_status(@, status),
                           !.log = Append(@, Call("executor", agent.current_plan.list[1])),
                           !.status = status,
                           !.clean = @ /\ status = "SUCCEEDED",
                           !.succeeded = IF agent.clean /\ status = "SUCCEEDED"
                                         THEN Append(@, agent.current_plan.list[1])
                                         ELSE << >>,
                           !.pc = "idle", !.returned = TRUE]
       ELSE agent' = [agent EXCEPT !.pc = "idle", !.returned = TRUE]
    /\ UNCHANGED <<plannerVars, declVars, automatonVars, arbiterVars>>

NextAgent ==
    AgentStep \/ AgentRunSensor \/ AgentCheckPlan \/ AgentFindNewPlan \/ AgentExecute

SpecAgent == InitAgent /\ [][NextAgent]_vars

\* ------------------------------------------------------------------------
\* mg_port: action.py, goal.py, graph.py, search.py, planner.py
\* (specification SpecPlanning)
\* ------------------------------------------------------------------------
MaxAgentGoals == 2
MaxPath == 3

\* Action and Goal (exact-state goals, actions without parameterizers)
Action(cost, preconditions, effects) ==
    [cost |-> cost, preconditions |-> preconditions, effects |-> effects]
Goal(weight, desired_state) == [weight |-> weight, desired_state |-> desired_state]

\* Action.is_possible, Goal.is_satisfied: every key is in the state with the
\* value asked for
is_possible(action, state) == Satisfies(state, action.preconditions)
goal_is_satisfied(g, state) == Satisfies(state, g.desired_state)

\* Action.apply_effects: a copy of the state with the effects assigned
RECURSIVE apply_effects(_, _, _)
apply_effects(action, state, i) ==
    IF i > Len(action.effects) THEN state
    ELSE apply_effects(action, Put(state, action.effects[i].k, action.effects[i].v), i + 1)

\* graph.get_successors as the search module documents it: a triple (action,
\* new state, cost) for each possible action.  graph.py defines
\* get_successors() without parameters and with the body `pass`, so the call
\* with two arguments raises TypeError.
get_successors_generated(current_state, concrete_actions) ==
    [raised |-> "none",
     successors |->
        LET possible == SelectSeq([a \in 1..Len(concrete_actions) |-> a],
                                  LAMBDA a : is_possible(concrete_actions[a], current_state))
        IN  [j \in 1..Len(possible) |->
                [action |-> possible[j],
                 state |-> apply_effects(concrete_actions[possible[j]], current_state, 1),
                 cost |-> concrete_actions[possible[j]].cost]]]
get_successors(current_state, concrete_actions) ==
    [raised |-> "TypeError", successors |-> << >>]

\* make_hashable_state: tuple(sorted(state.items()))
make_hashable_state(state) == {<<state[i].k, state[i].v>> : i \in 1..Len(state)}

\* _calculate_heuristic for a Goal: the number of unmet conditions
calculate_heuristic(state, g) ==
    Cardinality({i \in 1..Len(g.desired_state) :
                    \/ ~Has(state, g.desired_state[i].k)
                    \/ Get(state, g.desired_state[i].k) # g.desired_state[i].v})

\* _SearchNode; parent 0 and action 0 stand for None
SearchNode(state, action, parent, g_score, h_score) ==
    [state |-> state, action |-> action, parent |-> parent,
     g_score |-> g_score, h_score |-> h_score]

\* _reconstruct_path: the actions from the start to the node
RECURSIVE search_reconstruct_path(_, _)
search_reconstruct_path(nodes, n) ==
    IF n = 0 \/ nodes[n].action = 0 THEN << >>
    ELSE Append(search_reconstruct_path(nodes, nodes[n].parent), nodes[n].action)

\* astar_pathfind, the loop over the successors of the node `current`
RECURSIVE AstarSuccessors(_, _, _, _, _)
AstarSuccessors(s, current, successors, j, g) ==
    IF j > Len(successors) THEN s
    ELSE LET new_state_key == make_hashable_state(successors[j].state)
             tentative_g == s.nodes[current].g_score + successors[j].cost
         IN  IF new_state_key \in s.closed_set
             THEN AstarSuccessors(s, current, successors, j + 1, g)
             ELSE IF \/ new_state_key \notin DOMAIN s.g_scores
                     \/ tentative_g < s.g_scores[new_state_key]
             THEN LET h_score == calculate_heuristic(successors[j].state, g)
                      new_node == SearchNode(successors[j].state, successors[j].action,
                                             current, tentative_g, h_score)
                  IN  AstarSuccessors(
                          [s EXCEPT
                             !.g_scores = (new_state_key :> tentative_g) @@ @,
                             !.nodes = Append(@, new_node),
                             !.open_set = heappush(@, PriorityElement(Len(s.nodes) + 1,
                                                                      tentative_g + h_score))],
                          current, successors, j + 1, g)
             ELSE AstarSuccessors(s, current, successors, j + 1, g)

\* what a call did: the exception that left it ("none" when it returned) and
\* the plan returned (None or a list of positions in concrete_actions)
PlanReturned(plan) == [raised |-> "none", plan |-> plan]
PlanRaised(exception) == [raised |-> exception, plan |-> NonePlan]

\* astar_pathfind, the main loop
RECURSIVE AstarLoop(_, _, _)
AstarExpand(s, current, r, g, concrete_actions) ==
    IF r.raised # "none" THEN PlanRaised(r.raised)
    ELSE AstarLoop(AstarSuccessors(s, current, r.successors, 1, g), g, concrete_actions)
AstarLoop(s, g, concrete_actions) ==
    IF s.open_set = << >> THEN PlanReturned(NonePlan)
    ELSE LET popped == heappop(s.open_set)
             current == popped.item.value
             current_state_key == make_hashable_state(s.nodes[current].state)
         IN  IF current_state_key \in s.closed_set
             THEN AstarLoop([s EXCEPT !.open_set = popped.heap], g, concrete_actions)
             ELSE IF goal_is_satisfied(g, s.nodes[current].state)
             THEN PlanReturned(PlanList(search_reconstruct_path(s.nodes, current)))
             ELSE AstarExpand([s EXCEPT !.open_set = popped.heap,
                                        !.closed_set = @ \cup {current_state_key}],
                              current,
                              get_successors(s.nodes[current].state, concrete_actions),
                              g, concrete_actions)

astar_pathfind(start_state, g, concrete_actions) ==
    AstarLoop([nodes |-> <<SearchNode(start_state, 0, 0, 0,
                                      calculate_heuristic(start_state, g))>>,
               open_set |-> <<PriorityElement(1, calculate_heuristic(start_state, g))>>,
               closed_set |-> {},
               g_scores |-> (make_hashable_state(start_state) :> 0)],
              g, concrete_actions)

\* _calculate_plan_utility: goal.weight / plan_cost as a fraction, float('inf')
\* for a plan that costs nothing
Infinite == [inf |-> TRUE, num |-> 0, den |-> 1]
calculate_plan_utility(plan_cost, g) ==
    IF plan_cost <= 0 THEN Infinite
    ELSE [inf |-> FALSE, num |-> g.weight, den |-> plan_cost]
\* utility > best_utility
Greater(u, v) ==
    IF u.inf THEN ~v.inf
    ELSE ~v.inf /\ u.num * v.den > v.num * u.den

\* sum(action.cost for action in plan)
RECURSIVE SumCost(_, _, _)
SumCost(plan, concrete_actions, i) ==
    IF i > Len(plan) THEN 0
    ELSE concrete_actions[plan[i]].cost + SumCost(plan, concrete_actions, i + 1)

\* orchestrate_planning, the loop over agent.goals (the concrete actions of
\* templates without parameterizers are the templates)
RECURSIVE EvaluateGoals(_, _, _, _, _, _)
ConsiderPlan(state, concrete_actions, goals, i, best_plan, best_utility, r) ==
    IF r.raised # "none" THEN PlanRaised(r.raised)
    ELSE IF r.plan.is_none
    THEN EvaluateGoals(state, concrete_actions, goals, i + 1, best_plan, best_utility)
    ELSE IF Greater(calculate_plan_utility(SumCost(r.plan.list, concrete_actions, 1), goals[i]),
                    best_utility)
    THEN EvaluateGoals(state, concrete_actions, goals, i + 1, r.plan,
                       calculate_plan_utility(SumCost(r.plan.list, concrete_actions, 1),
                                              goals[i]))
    ELSE EvaluateGoals(state, concrete_actions, goals, i + 1, best_plan, best_utility)
EvaluateGoals(state, concrete_actions, goals, i, best_plan, best_utility) ==
    IF i > Len(goals) THEN PlanReturned(best_plan)
    ELSE IF goal_is_satisfied(goals[i], state)
    THEN EvaluateGoals(state, concrete_actions, goals, i + 1, best_plan, best_utility)
    ELSE ConsiderPlan(state, concrete_actions, goals, i, best_plan, best_utility,
                      astar_pathfind(state, goals[i], concrete_actions))

orchestrate_planning(state, templates, goals) ==
    EvaluateGoals(state, templates, goals, 1, NonePlan,
                  [inf |-> FALSE, num |-> 0, den |-> 1])

\* inputs: an agent's state, action templates and goals
ActionTemplates ==
    << Action(1, EmptyDict, D2("a", "u", "b", "u")),
       Action(0, EmptyDict, D1("c", "u")),
       Action(0, D1("c", "u"), D2("a", "u", "b", "u")),
       Action(1, EmptyDict, D1("a", "u")),
       Action(2, D1("a", "u"), D1("b", "u")) >>
TemplateLists ==
    UNION {{l \in [1..m -> 1..Len(ActionTemplates)] :
               \A i, j \in 1..m : i # j => l[i] # l[j]} : m \in 0..MaxActions}
AgentStates == {D2("a", "v", "b", "v"), D2("a", "u", "b", "v"), D2("a", "u", "b", "u")}
AgentGoals ==
    {Goal(weight, desired_state) :
        weight \in {0, 1, 2}, desired_state \in {D1("b", "u"), D2("a", "u", "b", "u")}}
AgentGoalLists == UNION {[1..n -> AgentGoals] : n \in 1..MaxAgentGoals}

InitPlanning ==
    /\ world_state = EmptyDict
    /\ actions = << >>
    /\ goal = EmptyDict
    /\ pc = "idle"
    /\ search = NoSearch
    /\ outcome = NoOutcome
    /\ DeclIdle
    /\ AutomatonIdle
    /\ ArbiterIdle
    /\ \E state \in AgentStates, l \in TemplateLists, goals \in AgentGoalLists :
          agent = [pc |-> "ready", state |-> state,
                   actions |-> [i \in 1..Len(l) |-> ActionTemplates[l[i]]],
                   goals |-> goals, g |-> 0, result |-> PlanReturned(NonePlan)]

\* astar_pathfind(agent.state, goal, agent.actions) for one of the goals
AstarPathfind ==
    /\ agent.pc = "ready"
    /\ \E i \in 1..Len(agent.goals) :
          agent' = [agent EXCEPT !.pc = "searched", !.g = i,
                       !.result = astar_pathfind(agent.state, agent.goals[i], agent.actions)]
    /\ UNCHANGED <<plannerVars, declVars, automatonVars, arbiterVars>>

\* orchestrate_planning(agent)
OrchestratePlanning ==
    /\ agent.pc = "ready"
    /\ agent' = [agent EXCEPT !.pc = "planned",
                    !.result = orchestrate_planning(agent.state, agent.actions, agent.goals)]
    /\ UNCHANGED <<plannerVars, declVars, automatonVars, arbiterVars>>

NextPlanning == AstarPathfind \/ OrchestratePlanning

SpecPlanning == InitPlanning /\ [][NextPlanning]_vars

\* ------------------------------------------------------------------------
\* AStarAlgorithm.find_path over a graph whose nodes are hashed by value
\* (specification SpecGraph): a neighbour can be a node met before
\* ------------------------------------------------------------------------
MaxWeight == 3

GraphNodes == <<"s", "m", "e">>
GraphNodeSet == {GraphNodes[i] : i \in 1..Len(GraphNodes)}

\* a graph: the g score of every edge (0 for no edge) and the h score of
\* every node
Graphs ==
    [weight : {w \in [GraphNodeSet \X GraphNodeSet -> 0..MaxWeight] :
                  \A n \in GraphNodeSet : w[<<n, n>>] = 0},
     h : [GraphNodeSet -> 0..1]]

\* get_neighbours(node) of the graph, in the order of GraphNodes
graph_neighbours(graph, node) ==
    SelectSeq(GraphNodes, LAMBDA n : graph.weight[<<node, n>>] > 0)

\* the locals of find_path(start, end) before the loop
GraphSearchStart(graph, start, end) ==
    [graph |-> graph, end |-> end,
     g_scores |-> (start :> 0),
     f_scores |-> (start :> graph.h[start]),
     parents |-> << >>,
     candidates |-> PQAdd(EmptyQueue, start, graph.h[start]),
     rejects |-> {},
     i |-> 0,
     status |-> "running",
     found |-> start,
     improved |-> {}]

\* the body of `for neighbour in self.get_neighbours(current)` for the
\* neighbours j..Len(ns); `improved` records the neighbours found in
\* candidates with a better tentative g score
RECURSIVE VisitGraphNeighbours(_, _, _, _)
VisitGraphNeighbours(s, current, ns, j) ==
    IF j > Len(ns) THEN s
    ELSE LET neighbour == ns[j]
             tentative_g_score == s.g_scores[current] + s.graph.weight[<<current, neighbour>>]
             tentative_is_better ==
                 tentative_g_score <
                     (IF neighbour \in DOMAIN s.g_scores
                      THEN s.g_scores[neighbour] ELSE FloatMax)
             f == tentative_g_score + s.graph.h[neighbour]
             scored == [s EXCEPT
                          !.parents = (neighbour :> current) @@ @,
                          !.g_scores = (neighbour :> tentative_g_score) @@ @,
                          !.f_scores = (neighbour :> f) @@ @]
         IN  IF neighbour \in s.rejects
             THEN VisitGraphNeighbours(s, current, ns, j + 1)
             ELSE IF neighbour \in s.candidates.dict /\ ~tentative_is_better
             THEN VisitGraphNeighbours(s, current, ns, j + 1)
             ELSE IF neighbour \in s.candidates.dict
             THEN [scored EXCEPT
                      !.status = "ValueError",
                      !.improved = @ \cup {[node |-> neighbour, parent |-> current,
                                             g |-> tentative_g_score]}]
             ELSE VisitGraphNeighbours(
                      [scored EXCEPT !.candidates = PQAdd(@, neighbour, f)],
                      current, ns, j + 1)

\* one iteration of `while candidates`, or the raise that follows the loop
GraphPathStep(s) ==
    IF s.candidates.dict = {} THEN [s EXCEPT !.status = "PathNotFoundException"]
    ELSE LET popped == PQPop(s.candidates)
             current == popped.value
             t == [s EXCEPT !.candidates = popped.queue, !.i = @ + 1]
         IN  IF current = s.end
             THEN [t EXCEPT !.status = "found", !.found = current]
             ELSE VisitGraphNeighbours([t EXCEPT !.rejects = @ \cup {current}],
                                       current, graph_neighbours(s.graph, current), 1)

InitGraph ==
    /\ world_state = EmptyDict
    /\ actions = << >>
    /\ goal = EmptyDict
    /\ pc = "graph_path"
    /\ \E graph \in Graphs : search = GraphSearchStart(graph, "s", "e")
    /\ outcome = NoOutcome
    /\ DeclIdle
    /\ AutomatonIdle
    /\ ArbiterIdle
    /\ AgentIdle

\* one iteration of the loop of find_path
GraphPathIterate ==
    /\ pc = "graph_path"
    /\ search.status = "running"
    /\ search' = GraphPathStep(search)
    /\ UNCHANGED <<world_state, actions, goal, pc, outcome>>
    /\ UNCHANGED <<declVars, automatonVars, arbiterVars, agentVars>>

\* find_path returns the reconstructed path or raises
GraphPathEnd ==
    /\ pc = "graph_path"
    /\ search.status # "running"
    /\ outcome' = [status |-> search.status,
                   plan |-> IF search.status = "found"
                            THEN AStarReconstructPath(search.parents, search.found)
                            ELSE << >>]
    /\ pc' = "graph_done"
    /\ UNCHANGED <<world_state, actions, goal, search>>
    /\ UNCHANGED <<declVars, automatonVars, arbiterVars, agentVars>>

NextGraph == GraphPathIterate \/ GraphPathEnd

SpecGraph == InitGraph /\ [][NextGraph]_vars

\* ------------------------------------------------------------------------
\* A PriorityQueue under sequences of add, remove and pop (specification
\* SpecQueue).  `scores` is the key of every contained item at the time it
\* was added, `last` the last call and what it returned or raised.
\* ------------------------------------------------------------------------
MaxScore == 1
MaxOps == 5

QueueItems == {"x", "y", "z"}

NoCall == [op |-> "none", item |-> "none", raised |-> "none",
           contained |-> {}, scores |-> << >>, heap |-> << >>]

QueueCall(op, item, raised) ==
    [op |-> op, item |-> item, raised |-> raised,
     contained |-> search.queue.dict, scores |-> search.scores,
     heap |-> search.queue.heap]

InitQueue ==
    /\ world_state = EmptyDict
    /\ actions = << >>
    /\ goal = EmptyDict
    /\ pc = "queue"
    /\ search = [queue |-> EmptyQueue, scores |-> << >>, ops |-> 0, last |-> NoCall]
    /\ outcome = NoOutcome
    /\ DeclIdle
    /\ AutomatonIdle
    /\ ArbiterIdle
    /\ AgentIdle

\* queue.add(item) with key(item) = score
QueueAdd ==
    /\ pc = "queue"
    /\ search.ops < MaxOps
    /\ \E item \in QueueItems, score \in 0..MaxScore :
          search' =
              IF item \in search.queue.dict
              THEN [search EXCEPT !.ops = @ + 1,
                                  !.last = QueueCall("add", item, "ValueError")]
              ELSE [search EXCEPT !.ops = @ + 1,
                                  !.queue = PQAdd(@, item, score),
                                  !.scores = (item :> score) @@ @,
                                  !.last = QueueCall("add", item, "none")]
    /\ UNCHANGED <<world_state, actions, goal, pc, outcome>>
    /\ UNCHANGED <<declVars, automatonVars, arbiterVars, agentVars>>

\* queue.remove(item)
QueueRemove ==
    /\ pc = "queue"
    /\ search.ops < MaxOps
    /\ \E item \in QueueItems :
          search' =
              IF item \notin search.queue.dict
              THEN [search EXCEPT !.ops = @ + 1,
                                  !.last = QueueCall("remove", item, "KeyError")]
              ELSE [search EXCEPT !.ops = @ + 1,
                                  !.queue = PQRemove(@, item),
                                  !.last = QueueCall("remove", item, "none")]
    /\ UNCHANGED <<world_state, actions, goal, pc, outcome>>
    /\ UNCHANGED <<declVars, automatonVars, arbiterVars, agentVars>>

\* queue.pop() of a queue that contains items
QueuePop ==
    /\ pc = "queue"
    /\ search.ops < MaxOps
    /\ search.queue.dict # {}
    /\ search' = [search EXCEPT !.ops = @ + 1,
                                !.queue = PQPop(@).queue,
                                !.last = QueueCall("pop", PQPop(search.queue).value, "none")]
    /\ UNCHANGED <<world_state, actions, goal, pc, outcome>>
    /\ UNCHANGED <<declVars, automatonVars, arbiterVars, agentVars>>

NextQueue == QueueAdd \/ QueueRemove \/ QueuePop

SpecQueue == InitQueue /\ [][NextQueue]_vars

\* ========================================================================
\* Properties of find_plan (specification Spec)
\* ========================================================================
Returned == pc = "done" /\ outcome.status = "found"

\* C1: for every plan find_plan returns, applying the literal effects of each
\* step's action, in plan order, to the world state yields a state in which
\* every key of the goal has the demanded value.
C1_PlanLiteralEffectsReachGoal ==
    Returned =>
        Satisfies(ApplyPlanLiterals(world_state, outcome.plan, 1, actions), goal)

\* C2: when the open set empties without a finished node, find_plan fails
\* with PlanFailed, the error Automaton.plan handles.
C2_EmptyOpenSetRaisesPlanFailed ==
    (pc = "done" /\ search.status # "none" /\ search.status # "found"
        /\ search.candidates.dict = {} /\ outcome.status # "KeyError")
    => outcome.status = "PlanFailed"

\* C3: the summed cost of a returned plan is at most the summed cost of every
\* valid plan for the same world state, actions and goal.
C3_ReturnedPlanIsCheapest ==
    (Returned /\ MinValidCost(world_state, actions, goal) >= 0)
    => PlanCost(outcome.plan, 1, actions) <= MinValidCost(world_state, actions, goal)

\* C7: if every key of the goal already has its demanded value in the world
\* state, find_plan returns the empty plan: it neither fails nor returns steps.
C7_SatisfiedGoalGivesEmptyPlan ==
    (pc = "done" /\ Satisfies(world_state, goal))
    => (outcome.status = "found" /\ outcome.plan = << >>)

\* C7 witness: find_plan has returned for a goal the world already satisfies,
\* with actions registered that could have been planned
C7_Witness ==
    /\ pc = "done"
    /\ Satisfies(world_state, goal)
    /\ Len(goal) = 2
    /\ Len(actions) = MaxActions
    /\ outcome.plan = << >>

\* C8: a goal key absent from the world state is read as NOT_DEFINED, counts
\* as unsatisfied and planning proceeds; the lookup does not fail.
C8_MissingGoalKeyReadsNotDefined ==
    (pc # "idle" /\ ~GoalKeysKnown(world_state, goal))
    => /\ search.status # "none"
       /\ outcome.status # "KeyError"
       /\ \A k \in KeySet(goal) \ KeySet(world_state) :
             Get(search.nodes[1].current_state, k) = NOT_DEFINED

\* the dicts equal to d: the same items inserted in any order
Orderings(d) ==
    {[i \in 1..Len(d) |-> d[p[i]]] :
        p \in {q \in [1..Len(d) -> 1..Len(d)] :
                  \A i, j \in 1..Len(d) : i # j => q[i] # q[j]}}

\* C15: two invocations of find_plan with equal world states, equal goals
\* and the same actions in the same declaration order return the same
\* sequence of (action, services) steps.
C15_EqualInputsGiveTheSamePlan ==
    Returned =>
        \A w \in Orderings(world_state), g \in Orderings(goal) :
            find_plan(w, actions, g).status = "found"
                => find_plan(w, actions, g).plan = outcome.plan

\* the step that feeds key k to step i of plan p: the last step before i whose
\* action has k among its effects (0 when there is none)
Feeder(p, i, k, acts) ==
    LET js == {j \in 1..(i - 1) : Has(acts[p[j].action].effects, k)}
    IN  IF js = {} THEN 0 ELSE CHOOSE j \in js : \A m \in js : m <= j

\* the links of the reference chains of plan p: <<j, k, i, e>> where step i
\* has the service effect e and the precondition k = reference(e), and the
\* step j that feeds k to it has the service effect k
ChainLinks(p, acts) ==
    {l \in (1..Len(p)) \X Keys \X (1..Len(p)) \X Keys :
        LET j == l[1]
            k == l[2]
            i == l[3]
            e == l[4]
            a == acts[p[i].action]
        IN  /\ Has(a.preconditions, k)
            /\ Get(a.preconditions, k) = reference(e)
            /\ Has(a.effects, e)
            /\ Get(a.effects, e) = Ellipsis
            /\ j = Feeder(p, i, k, acts)
            /\ Get(acts[p[j].action].effects, k) = Ellipsis}

\* C16: in every returned plan, an action whose service effect is demanded
\* through a reference(...) precondition of a later action has the same value
\* bound in its services as the referencing action has for the referenced
\* effect, so that one value runs along the whole chain.
C16_ReferenceChainCarriesOneValue ==
    (Returned /\ outcome.status = "found") =>
        \A l \in ChainLinks(outcome.plan, actions) :
            Get(outcome.plan[l[1]].services, l[2]) = Get(outcome.plan[l[3]].services, l[4])

\* find_plan was called on the inputs of example_1 and has returned
Example1Returned ==
    /\ Returned
    /\ world_state = example_1.world_state
    /\ actions = example_1.actions
    /\ goal = example_1.goal_state

\* C17: for the world, goal and actions of example 1 (BecomeUndead,
\* HauntWithIncantation and the chant service action, declared in that
\* order) find_plan returns exactly three steps: the chant service action
\* with the demanded incantation bound to chant_incantation, then
\* BecomeUndead, then HauntWithIncantation.
C17_Example1PlanIsChantUndeadHaunt ==
    Example1Returned =>
        /\ outcome.status = "found"
        /\ outcome.plan = <<RegPlanStep(3, D1("c", "w")),
                            RegPlanStep(1, EmptyDict),
                            RegPlanStep(2, EmptyDict)>>

C17_Witness == Example1Returned /\ Len(outcome.plan) = 3

\* ------------------------------------------------------------------------
\* Properties of class creation (specification SpecDecl)
\* ------------------------------------------------------------------------
\* the preconditions of the class are free of Ellipsis, and each reference
\* among them names a key of the class's effects
WellFormed(cls) ==
    \A i \in 1..Len(cls.preconditions) :
        /\ cls.preconditions[i].v # Ellipsis
        /\ IsReference(cls.preconditions[i].v)
               => Has(cls.effects, goap_effect_reference(cls.preconditions[i].v))

\* C9: no action class exists, whether it subclasses RegAction directly or
\* inherits or overrides the preconditions or effects of another action
\* class, whose preconditions contain Ellipsis or a reference to a key that
\* is not among its effects.
C9_EveryClassIsWellFormed ==
    \A c \in 1..Len(classes) : WellFormed(classes[c])

\* ------------------------------------------------------------------------
\* Properties of the automaton (specification SpecAutomaton)
\* ------------------------------------------------------------------------
\* C4: in every state of the automaton, SENSING included, input_goal(g) is
\* accepted: the call returns, the automaton is in WAITING_ORDERS and g is
\* its current goal.
C4_InputGoalAcceptedInEveryState ==
    observed.input = "input_goal" =>
        /\ observed.raised = "none"
        /\ automaton.state = "waiting_orders"
        /\ automaton.goal = observed.g

\* C5: once input_goal(g) has been accepted the plan held before it is
\* discarded: no input executes a step of a plan the planner returned before
\* that input_goal; an act executes only steps of a plan computed since.
C5_NoStepOfDiscardedPlanIsExecuted ==
    ~observed.ran_stale

\* C6: over any sequence of inputs a plan step is executed at most once: no
\* input executes a step that was already executed since the planner last
\* returned a plan.
C6_PlanStepExecutedAtMostOnce ==
    ~observed.ran_again

\* the changes of state the transition table allows, as <<from, input, to>>
TableTransitions ==
    {<<"waiting_orders", "sense", "sensing">>,
     <<"sensing", "plan", "planning">>,
     <<"planning", "act", "acting">>,
     <<"acting", "sense", "sensing">>,
     <<"sensing", "wait", "waiting_orders">>}
        \cup {<<s, "input_goal", "waiting_orders">> : s \in States}

\* C26: the automaton starts in WAITING_ORDERS and every input that changes
\* its state changes it along a transition of the table: WAITING-sense->
\* SENSING, SENSING-plan->PLANNING, PLANNING-act->ACTING, ACTING-sense->
\* SENSING, SENSING-wait->WAITING, input_goal->WAITING.
C26_StateChangesOnlyAlongTheTable ==
    /\ observed.input = "none" => automaton.state = "waiting_orders"
    /\ (observed.input # "none" /\ automaton.state # observed.from)
          => <<observed.from, observed.input, automaton.state>> \in TableTransitions

\* the last input was sense and its sense pass has run
SensedOnce ==
    /\ observed.input = "sense"
    /\ observed.raised = "none"
    /\ automaton.state = "sensing"

\* the values the sensors produced in the last sense pass: the data of the
\* facts it appended to the working memory
LastReadings(am) ==
    [i \in 1..Len(am.sensors) |->
        am.working_memory[Len(am.working_memory) - Len(am.sensors) + i].data]

\* a further sense pass on the automaton left by the call `back`
SenseAgain(back, readings) == Input(back.am, "sense", EmptyDict, readings)

\* the call `second` returned and left the world state of am
LeavesWorldOf(second, am) ==
    /\ second.raised = "none"
    /\ second.am.world_state = am.world_state

\* C18: after a sense pass, a second sense pass in which the sensors produce
\* the same values (sent once wait has brought the automaton back to
\* WAITING_ORDERS, or at once where sense is accepted in SENSING) leaves the
\* world state equal to the world state after the first pass.
C18_SecondSensePassKeepsWorldState ==
    SensedOnce =>
        /\ LeavesWorldOf(SenseAgain(Input(automaton, "wait", EmptyDict, NoReadings),
                                    LastReadings(automaton)),
                         automaton)
        /\ automaton.impl = "ref_goap"
               => LeavesWorldOf(SenseAgain(Returns(automaton), LastReadings(automaton)),
                                automaton)

\* a sense pass that changed the world state, on an automaton holding an older
\* fact of another value for the same binding
C18_Witness ==
    /\ SensedOnce
    /\ automaton.sensors # << >>
    /\ Len(automaton.working_memory) > Len(automaton.sensors)
    /\ automaton.working_memory[1].binding = automaton.working_memory[Len(automaton.working_memory)].binding
    /\ automaton.working_memory[1].data # automaton.working_memory[Len(automaton.working_memory)].data
    /\ SenseAgain(Input(automaton, "wait", EmptyDict, NoReadings),
                  LastReadings(automaton)).am.working_memory # << >>

\* ------------------------------------------------------------------------
\* Properties of the drive loop (specification SpecController)
\* ------------------------------------------------------------------------
\* C10: when planning fails in a tick of the drive loop, no plan step is
\* executed in that tick, the loop is not left (it goes on to a next tick),
\* and at the end of the tick the automaton is in WAITING_ORDERS.
C10_FailedPlanningKeepsLoopWaiting ==
    controller.tick.plan_failed =>
        /\ controller.tick.executed = 0
        /\ controller.pc # "raised"
        /\ controller.pc = "loop" => automaton.state = "waiting_orders"

\* C11: across two consecutive ticks with an identical world state and the
\* same goal the planner is invoked at most once: find_plan is not called in
\* a tick whose predecessor called it on the same world state and goal.
C11_PlannerInvokedOncePerWorldAndGoal ==
    ~ /\ controller.prev.planned
      /\ controller.tick.planned
      /\ DictEq(controller.tick.world, controller.prev.world)
      /\ DictEq(controller.tick.goal, controller.prev.goal)

\* C13: the controller takes the goal as achieved, sending wait instead of
\* plan and act, exactly when every key of the goal has its demanded value in
\* the world state, whatever other keys the world state holds.
C13_WaitExactlyWhenGoalHolds ==
    controller.tick.branch # "none" =>
        (controller.tick.branch = "wait"
            <=> Satisfies(controller.tick.world, controller.tick.goal))

\* C14: once stop() has been called while the loop of start() runs, no
\* further tick begins: the loop test is not passed again.
C14_NoTickBeginsAfterStop ==
    [][controller.stopped => ~(controller.pc = "loop" /\ controller'.pc = "sense")]_vars

\* ------------------------------------------------------------------------
\* Properties of goal arbitration (specification SpecArbiter)
\* ------------------------------------------------------------------------
EligibleGoals == {i \in 1..Len(arbiter.possible_goals) :
                     Eligible(arbiter.possible_goals[i], arbiter.world_state)}

CallsOf(kind) == {j \in 1..Len(agent.log) : agent.log[j].kind = kind}

\* the sensors that ran before position j of the record
SensorsBefore(j) == {agent.log[m].arg : m \in {n \in CallsOf("sensor") : n < j}}

\* C19: in every call of Agent.step all sensors have run before the planner
\* is consulted, the planner is consulted before any executor is called, and
\* no executor is called before all sensors of that step have run.
C19_SensorsThenPlannerThenExecutor ==
    /\ \A j \in CallsOf("planner") \cup CallsOf("executor") :
          SensorsBefore(j) = 1..agent.sensors
    /\ \A p \in CallsOf("planner"), e \in CallsOf("executor") : p < e
    /\ \A s \in CallsOf("sensor"), p \in CallsOf("planner") \cup CallsOf("executor") : s < p

C19_Witness ==
    /\ agent.pc = "idle"
    /\ agent.returned
    /\ agent.sensors = MaxSensors
    /\ Cardinality(CallsOf("sensor")) = MaxSensors
    /\ CallsOf("planner") # {}
    /\ CallsOf("executor") # {}

\* C20: a call of Agent.step invokes orchestrate_planning if and only if,
\* after the sensors of the step ran, current_plan is None or empty; in
\* DEFAULT and in ONE_ACTION mode alike.
C20_PlannerInvokedIffNoPlanAfterSensing ==
    agent.pc \in {"act", "idle"} /\ (agent.pc = "idle" => agent.returned)
        => (CallsOf("planner") # {}
                <=> (agent.after_sensing.is_none \/ agent.after_sensing.list = << >>))

C20_Witness ==
    /\ agent.pc = "idle"
    /\ agent.returned
    /\ agent.mode = "ONE_ACTION"
    /\ ~agent.after_sensing.is_none
    /\ agent.after_sensing.list = << >>
    /\ CallsOf("planner") # {}

\* C21: _execute_current_action calls the executor of the first action of
\* current_plan only, and SUCCEEDED removes exactly that action: while every
\* executor returns SUCCEEDED the actions executed since the plan was adopted
\* are its first actions in plan order, the rest of the plan is what
\* current_plan holds, and no step calls more than one executor.
C21_SucceedingPlanRunsInOrderOnePerStep ==
    /\ Cardinality(CallsOf("executor")) <= 1
    /\ \A e \in CallsOf("executor") :
          agent.clean => agent.log[e].arg = agent.adopted[Len(agent.succeeded)]
    /\ agent.clean =>
          /\ ~agent.current_plan.is_none
          /\ agent.succeeded = SubSeq(agent.adopted, 1, Len(agent.succeeded))
          /\ agent.current_plan.list =
                SubSeq(agent.adopted, Len(agent.succeeded) + 1, Len(agent.adopted))

C21_Witness ==
    /\ agent.pc = "idle"
    /\ agent.clean
    /\ Len(agent.adopted) = MaxPlan
    /\ agent.adopted[1] # agent.adopted[2]
    /\ agent.succeeded = agent.adopted
    /\ agent.current_plan.list = << >>
    /\ agent.after_sensing.list # << >>

\* C22: when the executor returns FAILED or a value that is no member of
\* ExecutionStatus, current_plan is None when the step returns, and in the
\* next step no executor is called unless the planner was consulted first.
C22_FailedActionAbandonsThePlan ==
    /\ (agent.pc = "idle" /\ agent.status \in {"FAILED", "other"})
          => agent.current_plan = NonePlan
    /\ agent.prev_status \in {"FAILED", "other"}
          => \A e \in CallsOf("executor") : \E p \in CallsOf("planner") : p < e

C22_Witness ==
    /\ agent.pc = "idle"
    /\ agent.prev_status = "other"
    /\ Len(agent.after_sensing.list) = 0
    /\ CallsOf("executor") # {}
    /\ agent.status = "FAILED"
    /\ agent.current_plan = NonePlan

\* ------------------------------------------------------------------------
\* Properties of the mg_port planner (specification SpecPlanning)
\* ------------------------------------------------------------------------
\* the sequence seq of concrete actions, from its i-th action on, is possible
\* action by action from the state and ends in a state satisfying g
RECURSIVE Leads(_, _, _, _, _)
Leads(state, seq, i, g, concrete_actions) ==
    IF i > Len(seq) THEN goal_is_satisfied(g, state)
    ELSE /\ is_possible(concrete_actions[seq[i]], state)
         /\ Leads(apply_effects(concrete_actions[seq[i]], state, 1), seq, i + 1, g,
                  concrete_actions)

\* the sequences of at most MaxPath concrete actions that lead from the state
\* to a state satisfying g
Leading(state, g, concrete_actions) ==
    {seq \in UNION {[1..n -> 1..Len(concrete_actions)] : n \in 0..MaxPath} :
        Leads(state, seq, 1, g, concrete_actions)}

\* the goals of the agent that its state does not satisfy
Unsatisfied == {i \in 1..Len(agent.goals) : ~goal_is_satisfied(agent.goals[i], agent.state)}

\* the utility of the plan astar_pathfind returned in the call r for goal i
FoundUtility(r, i) ==
    calculate_plan_utility(SumCost(r.plan.list, agent.actions, 1), agent.goals[i])

\* the plan chosen is the plan found in the call r for goal i, and no plan
\* found for an unsatisfied goal has a greater utility
ChosenFor(r, i) ==
    /\ r.raised = "none"
    /\ r.plan = agent.result.plan
    /\ \A j \in Unsatisfied :
          ~Greater(FoundUtility(astar_pathfind(agent.state, agent.goals[j], agent.actions), j),
                   FoundUtility(r, i))

\* C23: orchestrate_planning returns a plan whose utility, goal.weight over
\* the plan's total cost, is maximal among the plans found for the agent's
\* unsatisfied goals, and returns None if no unsatisfied goal has a plan.
C23_OrchestrateReturnsPlanOfMaximalUtility ==
    agent.pc = "planned" =>
        /\ agent.result.raised = "none"
        /\ (\A i \in Unsatisfied :
               Leading(agent.state, agent.goals[i], agent.actions) = {})
              => agent.result.plan.is_none
        /\ (\E i \in Unsatisfied :
               Leading(agent.state, agent.goals[i], agent.actions) # {})
              => ~agent.result.plan.is_none
        /\ ~agent.result.plan.is_none
              => \E i \in Unsatisfied :
                    ChosenFor(astar_pathfind(agent.state, agent.goals[i], agent.actions), i)

\* C24: astar_pathfind returns None, without raising, whenever the start
\* state does not satisfy the goal and no sequence of the concrete actions
\* leads from it to a state satisfying the goal.
C24_AstarReturnsNoneWhenNoPathExists ==
    (/\ agent.pc = "searched"
     /\ ~goal_is_satisfied(agent.goals[agent.g], agent.state)
     /\ Leading(agent.state, agent.goals[agent.g], agent.actions) = {})
        => agent.result = PlanReturned(NonePlan)

Recurs(s, m, n) ==
    /\ m < n
    /\ s.status = "running"
    /\ s.candidates.dict = {n}
    /\ n = Len(s.nodes)
    /\ s.nodes[n] = s.nodes[m]
    /\ \A k \in (m + 1)..n : s.parents[k] = k - 1

\* C27: find_plan terminates for every finite action list, world state and
\* goal: find_path never reaches a state from which its loop repeats the same
\* expansions for ever.
C27_FindPathNeverRepeatsForEver ==
    pc = "find_path" =>
        ~\E m, n \in 1..Len(search.nodes) : Recurs(search, m, n)


\* the values a plan step recorded for its action's service effects
StepServices(step, acts) ==
    [k \in ServiceKeys(acts[step.action]) |-> Get(step.services, k)]

\* the steps i.. of a plan run from `state`, each with its recorded services:
\* TRUE when every step's preconditions hold in the state it is reached in
RECURSIVE StepsExecutable(_, _, _, _)
StepsExecutable(state, plan, i, acts) ==
    IF i > Len(plan) THEN TRUE
    ELSE /\ Executable(state, acts[plan[i].action], StepServices(plan[i], acts))
         /\ StepsExecutable(Execute(state, acts[plan[i].action],
                                     StepServices(plan[i], acts)),
                             plan, i + 1, acts)

\* C28: in every plan find_plan returns each step is executable when reached:
\* its preconditions, references resolved to the step's service values, hold
\* in the world state after the effects of the steps before it.
C28_EveryStepIsExecutableWhenReached ==
    (pc = "done" /\ outcome.status = "found")
        => StepsExecutable(WorldFn(world_state), outcome.plan, 1, actions)


\* C29: in find_path a neighbour found in the open set with a strictly
\* smaller tentative g is re-parented (parent, g and f updated, its queue
\* priority the new f) and the search continues; when the open set empties
\* without a finished node the search fails with PathNotFoundException.
C29_BetterOpenNeighbourIsReparented ==
    /\ \A r \in search.improved :
          /\ search.status \in {"running", "found", "PathNotFoundException"}
          /\ search.g_scores[r.node] <= r.g
          /\ r.node \in search.candidates.dict =>
                \E i \in 1..Len(search.candidates.heap) :
                    /\ search.candidates.heap[i].value = r.node
                    /\ ~search.candidates.heap[i].removed
                    /\ search.candidates.heap[i].score = search.f_scores[r.node]
    /\ (search.status # "running" /\ search.candidates.dict = {}
           /\ search.found # search.end)
          => search.status = "PathNotFoundException"


\* node n lies on the path of parents from the start node to node d
OnPathTo(s, n, d) ==
    \E i \in 1..Len(AStarReconstructPath(s.parents, d)) :
        AStarReconstructPath(s.parents, d)[i] = n

\* C30: h(node), the number of unsatisfied keys, never exceeds the least
\* total action cost of reaching a satisfied node from the node: it is at
\* most the summed cost of the actions leading from the node to any
\* satisfied node the search has reached from it.
C30_HeuristicNeverOverestimates ==
    \A n, d \in DOMAIN search.g_scores :
        (OnPathTo(search, n, d) /\ is_satisfied(search.nodes[d]))
            => get_h_score(search.nodes[n]) <= search.g_scores[d] - search.g_scores[n]


\* the precedence of the action that produced node n
IncomingPrecedence(s, n, acts) == acts[s.nodes[n].action].precedence

\* C31: whenever two neighbours of the same node are in the open set with
\* equal f, the one whose incoming action has the higher precedence is
\* popped first: no iteration of find_path pops a node while a neighbour of
\* the same parent with the same f and a higher precedence stays queued.
C31_HigherPrecedencePoppedFirstOnEqualF ==
    [][(pc = "find_path" /\ search.status = "running")
          => \A p \in search.candidates.dict \ search'.candidates.dict :
                \A q \in search.candidates.dict \ {p} :
                    (/\ p \in DOMAIN search.parents
                     /\ q \in DOMAIN search.parents
                     /\ search.parents[p] = search.parents[q]
                     /\ search.f_scores[p] = search.f_scores[q])
                        => IncomingPrecedence(search, q, actions)
                              <= IncomingPrecedence(search, p, actions)]_vars


\* ------------------------------------------------------------------------
\* The automaton executing its plan
\* ------------------------------------------------------------------------
\* C32: each act input executes exactly one plan step and advances the step
\* index by one: an act never executes two steps, and an act accepted in
\* PLANNING with steps in the plan executes one.
C32_ActExecutesExactlyOneStep ==
    observed.input = "act" =>
        /\ Len(observed.executed) <= 1
        /\ (observed.from = "planning" /\ observed.raised = "none"
               /\ automaton.action_plan # << >>)
              => Len(observed.executed) = 1


\* C33: after an entry into SENSING that follows ACTING the working memory
\* holds only the facts of that sense pass, and over any run the working
\* memory never holds more facts than there are sensors.
C33_WorkingMemoryHoldsOnePassOnly ==
    /\ Len(automaton.working_memory) <= Len(automaton.sensors)
    /\ (observed.input = "sense" /\ observed.from = "acting"
           /\ observed.raised = "none" /\ automaton.state = "sensing")
          => Len(automaton.working_memory) = Len(automaton.sensors)


\* C34: the automaton executes the plan steps in the order of the sequence
\* find_plan returned, the effect writes of a step complete before the next
\* step: an act that executes steps executes all of them first to last and
\* leaves the world state the effects of the steps, written step by step in
\* plan order, produce.
C34_StepsRunInPlanOrder ==
    [][(observed'.input = "act" /\ observed'.executed # << >>)
          => /\ observed'.executed = [i \in 1..Len(automaton.action_plan) |-> i]
             /\ automaton'.world_state =
                   ApplyPlanLiterals(automaton.world_state, automaton.action_plan,
                                     1, automaton.actions)]_vars

\* C34 witness: an act has executed a plan of two steps that write different
\* values to the same key, so that the order of the writes shows
C34_Witness ==
    /\ observed.input = "act"
    /\ Len(observed.executed) = 2
    /\ \E k \in Keys :
          LET e1 == automaton.actions[automaton.action_plan[1].action].effects
              e2 == automaton.actions[automaton.action_plan[2].action].effects
          IN  /\ Has(e1, k) /\ Has(e2, k)
              /\ Get(e1, k) # Get(e2, k)
              /\ Get(automaton.world_state, k) = Get(e2, k)


\* step j of the plan writes key k, and no later step does
LastWriter(am, j, k) ==
    /\ Has(am.actions[am.action_plan[j].action].effects, k)
    /\ \A l \in (j + 1)..Len(am.action_plan) :
          ~Has(am.actions[am.action_plan[l].action].effects, k)

\* C35: after the automaton has executed a plan step whose action has
\* apply_effects_on_exit, every literal effect (k, v) of the action holds in
\* the world state (until a later step writes k), and the service sentinel
\* is never a value of the world state.
C35_LiteralEffectsHoldAndNoSentinel ==
    /\ \A i \in 1..Len(automaton.world_state) :
          automaton.world_state[i].v # Ellipsis
    /\ (observed.input = "act" /\ observed.executed # << >>)
          => \A j \in 1..Len(automaton.action_plan) : \A k \in Keys :
                LET cls == automaton.actions[automaton.action_plan[j].action]
                IN  (/\ cls.apply_effects_on_exit
                     /\ LastWriter(automaton, j, k)
                     /\ Get(cls.effects, k) # Ellipsis)
                        => /\ Has(automaton.world_state, k)
                           /\ Get(automaton.world_state, k) = Get(cls.effects, k)

\* C35 witness: an act has executed a step with a service effect and a step
\* with a literal effect
C35_Witness ==
    /\ observed.input = "act"
    /\ Len(observed.executed) = 2
    /\ \E j \in 1..2 :
          ServiceKeys(automaton.actions[automaton.action_plan[j].action]) # {}
    /\ \E j \in 1..2 : \E k \in Keys :
          LET cls == automaton.actions[automaton.action_plan[j].action]
          IN  /\ Has(cls.effects, k)
              /\ Get(cls.effects, k) # Ellipsis
              /\ Get(automaton.world_state, k) = Get(cls.effects, k)


\* ------------------------------------------------------------------------
\* apply_action on a key that is both precondition and effect
\* ------------------------------------------------------------------------
\* key k is a precondition and an effect of the action, both with literal values
SharedLiteralKey(act, k) ==
    /\ Has(act.preconditions, k)
    /\ Has(act.effects, k)
    /\ Get(act.effects, k) # Ellipsis
    /\ ~IsReference(Get(act.preconditions, k))

\* C36: when apply_action applies backwards an action with key k both in
\* preconditions and in effects, the effect a literal, the child's demand on
\* k is the precondition's value, and k is satisfied in the child if and
\* only if the world state's value for k is the precondition's value.
C36_SharedKeyTakesThePreconditionsDemand ==
    \A n \in 1..Len(search.nodes) :
        LET node == search.nodes[n]
        IN  (node.action # NoAction /\ ~node.err) =>
                \A k \in Keys :
                    SharedLiteralKey(actions[node.action], k) =>
                        /\ Get(node.goal_state, k) = Get(actions[node.action].preconditions, k)
                        /\ (Get(node.current_state, k) = Get(node.goal_state, k))
                              <=> (GetOr(world_state, k, NOT_DEFINED)
                                     = Get(actions[node.action].preconditions, k))

\* C36 witness: the search holds a child of such an action whose shared key
\* is satisfied by the world state, though the effect's literal differs
C36_Witness ==
    \E n \in 1..Len(search.nodes) : \E k \in Keys :
        LET node == search.nodes[n]
        IN  /\ node.action # NoAction
            /\ ~node.err
            /\ SharedLiteralKey(actions[node.action], k)
            /\ Get(actions[node.action].effects, k) # Get(actions[node.action].preconditions, k)
            /\ Get(node.current_state, k) = Get(node.goal_state, k)


\* ------------------------------------------------------------------------
\* PriorityQueue (specification SpecQueue)
\* ------------------------------------------------------------------------
\* C37: after any sequence of add, remove and pop, pop on a queue that
\* contains items returns an item that was contained, of the least score
\* among the contained items, never a removed one, and the item is no longer
\* contained afterwards.
C37_PopReturnsLeastContainedItem ==
    search.last.op = "pop" =>
        /\ search.last.item \in search.last.contained
        /\ \A other \in search.last.contained :
              search.last.scores[search.last.item] <= search.last.scores[other]
        /\ search.last.item \notin search.queue.dict
        /\ search.queue.dict = search.last.contained \ {search.last.item}

\* C37 witness: a pop of a queue of two or more items whose heap held the
\* entry of a removed item with a smaller score
C37_Witness ==
    /\ search.last.op = "pop"
    /\ Cardinality(search.last.contained) >= 2
    /\ \E i \in 1..Len(search.last.heap) :
          /\ search.last.heap[i].removed
          /\ search.last.heap[i].score < search.last.scores[search.last.item]


\* ------------------------------------------------------------------------
\* service_names of action classes (specification SpecDecl)
\* ------------------------------------------------------------------------
\* C38: for every action class, subclasses that inherit their effects
\* included, service_names is exactly the set of the class's effect keys
\* whose value is the service sentinel.
C38_ServiceNamesAreTheSentinelEffects ==
    \A c \in 1..Len(classes) :
        {classes[c].service_names[i] : i \in 1..Len(classes[c].service_names)}
            = ServiceKeys(classes[c])


C40_PlannerReadsTheCurrentWorldState ==
    (observed.input = "plan" /\ observed.from = "sensing")
        => automaton.planner_world_state = automaton.world_state

====
